---------------------------- MODULE Spec2Model ----------------------------
(***************************************************************************)
(* Model of the prayer-time lookup and zawal-time derivation of            *)
(* src/app.py (get_prayer_times, get_zawal_time), of the date helpers and  *)
(* load_islamic_images, and of the script run of main() that uses them:    *)
(* image loading, city selection, dates, prayer times and the gallery.     *)
(*                                                                         *)
(* Python values are modelled as follows.                                  *)
(*   - a time string is a sequence of one-character strings, so that       *)
(*     parsing (strptime) and formatting (strftime) work on characters;    *)
(*   - an argument of get_zawal_time is a tagged value [type, chars],      *)
(*     since the function accepts any object and catches the TypeError;    *)
(*   - a city identifier is an atomic string compared by equality, which   *)
(*     is what dict.get does;                                              *)
(*   - a dict is a sequence of <<key, value>> pairs in insertion order;    *)
(*     the Urdu prayer names of the source are written by their usual      *)
(*     transliterations (fajr, sunrise, dhuhr, asr, maghrib, isha);        *)
(*   - a datetime is [day, hour, minute] with day 0 = 1900-01-01, the date *)
(*     strptime supplies when the format has no date directive;            *)
(*   - the Urdu strings of the date helpers are sequences of code points   *)
(*     ("u062C" is U+062C);                                                *)
(*   - the file system answers each os.path.exists and Image.open of a     *)
(*     script run as it pleases; an image that opened is displayable.      *)
(* The locale is the C locale Python starts with (AM/PM).                  *)
(***************************************************************************)
EXTENDS Integers, Sequences, FiniteSets, TLC

(***************************************************************************)
(* Characters                                                              *)
(***************************************************************************)
AsciiDigits == {"0", "1", "2", "3", "4", "5", "6", "7", "8", "9"}

\* U+0663 ARABIC-INDIC DIGIT THREE stands for the decimal digits outside
\* ASCII: the regex class \d and int() accept every Unicode decimal digit.
UnicodeDigits == {"u0663"}

\* The regex class \d of a str pattern.
RegexDigit == AsciiDigits \cup UnicodeDigits

\* The regex class \s: the space and the tab stand for Unicode whitespace.
RegexSpace == {" ", "\t"}

\* int() of one decimal digit.
DigitVal(c) ==
    CASE c = "0" -> 0 [] c = "1" -> 1 [] c = "2" -> 2 [] c = "3" -> 3
      [] c = "4" -> 4 [] c = "5" -> 5 [] c = "6" -> 6 [] c = "7" -> 7
      [] c = "8" -> 8 [] c = "9" -> 9 [] c = "u0663" -> 3

\* The digit character of n in 0..9, as the %02d of strftime writes it.
DigitChar(n) ==
    CASE n = 0 -> "0" [] n = 1 -> "1" [] n = 2 -> "2" [] n = 3 -> "3"
      [] n = 4 -> "4" [] n = 5 -> "5" [] n = 6 -> "6" [] n = 7 -> "7"
      [] n = 8 -> "8" [] n = 9 -> "9"

\* str.lower() on the letters the format can meet; other characters are
\* their own lower case.
LowerChar(c) ==
    CASE c = "A" -> "a" [] c = "P" -> "p" [] c = "M" -> "m" [] OTHER -> c

\* int() of a string of decimal digits.
RECURSIVE IntOf(_)
IntOf(s) ==
    IF s = <<>> THEN 0
    ELSE 10 * IntOf(SubSeq(s, 1, Len(s) - 1)) + DigitVal(s[Len(s)])

\* TwoDigits as %-I and %-M would write it: no leading zero.
TwoDigitsUnpadded(n) ==
    IF n < 10 THEN <<DigitChar(n)>> ELSE <<DigitChar(n \div 10), DigitChar(n % 10)>>

\* Zero-padded two-digit decimal, the %I and %M of strftime.
TwoDigits(n) == <<DigitChar(n \div 10), DigitChar(n % 10)>>

(***************************************************************************)
(* Python values handed to get_zawal_time                                  *)
(***************************************************************************)
PyStr(chars) == [type |-> "str", chars |-> chars]

PyNone == [type |-> "NoneType", chars |-> <<>>]

(***************************************************************************)
(* datetime.strptime(dhuhr_time, "%I:%M %p")                               *)
(*                                                                         *)
(* _strptime compiles the format to the regular expression                 *)
(*   (?P<I>1[0-2]|0[1-9]|[1-9]):(?P<M>[0-5]\d|\d)\s+(?P<p>am|pm)           *)
(* with IGNORECASE, applies re.match (alternatives in order, \s+ greedy,   *)
(* with backtracking) and then requires the match to end at the end of     *)
(* the string.                                                             *)
(***************************************************************************)
AtIs(s, i, set) == i >= 1 /\ i <= Len(s) /\ s[i] \in set

\* Length of the run of \s characters of s starting at position i.
RECURSIVE SpaceRunLen(_, _)
SpaceRunLen(s, i) ==
    IF AtIs(s, i, RegexSpace) THEN 1 + SpaceRunLen(s, i + 1) ELSE 0

\* (am|pm) under IGNORECASE at position i.
MeridiemAt(s, i) ==
    /\ i + 1 <= Len(s)
    /\ LowerChar(s[i]) \in {"a", "p"}
    /\ LowerChar(s[i + 1]) = "m"

\* \s+(am|pm) from position i: the position after the match, 0 if none.
\* The greedy \s+ tries the longest run first and gives characters back.
MatchTail(s, i) ==
    LET run   == SpaceRunLen(s, i)
        cands == {n \in 1..run : MeridiemAt(s, i + n)}
    IN  IF cands = {} THEN 0
        ELSE i + (CHOOSE n \in cands : \A k \in cands : k <= n) + 2

\* (?P<M>[0-5]\d|\d) followed by the tail, from position i.
MatchMinute(s, i) ==
    IF /\ AtIs(s, i, {"0", "1", "2", "3", "4", "5"})
       /\ AtIs(s, i + 1, RegexDigit)
       /\ MatchTail(s, i + 2) # 0
    THEN [mlen |-> 2, end |-> MatchTail(s, i + 2)]
    ELSE IF AtIs(s, i, RegexDigit) /\ MatchTail(s, i + 1) # 0
    THEN [mlen |-> 1, end |-> MatchTail(s, i + 1)]
    ELSE [mlen |-> 0, end |-> 0]

\* (?P<I>1[0-2]|0[1-9]|[1-9]): followed by the rest; hlen = 0 if no match.
HourThenRest(s, hlen) ==
    /\ AtIs(s, hlen + 1, {":"})
    /\ MatchMinute(s, hlen + 2).mlen # 0

MatchFormat(s) ==
    LET hlen ==
          IF /\ AtIs(s, 1, {"1"}) /\ AtIs(s, 2, {"0", "1", "2"})
             /\ HourThenRest(s, 2)
          THEN 2
          ELSE IF /\ AtIs(s, 1, {"0"}) /\ AtIs(s, 2, AsciiDigits \ {"0"})
                  /\ HourThenRest(s, 2)
          THEN 2
          ELSE IF AtIs(s, 1, AsciiDigits \ {"0"}) /\ HourThenRest(s, 1)
          THEN 1
          ELSE 0
        mm == MatchMinute(s, hlen + 2)
    IN  IF hlen = 0
        THEN [found |-> FALSE, I |-> <<>>, M |-> <<>>, p |-> <<>>, end |-> 0]
        ELSE [found |-> TRUE,
              I     |-> SubSeq(s, 1, hlen),
              M     |-> SubSeq(s, hlen + 2, hlen + 1 + mm.mlen),
              p     |-> SubSeq(s, mm.end - 2, mm.end - 1),
              end   |-> mm.end]

\* The default date of strptime, 1900-01-01, is day 0.
StrptimeDay == 0

\* Strptime without the check that the match ends at the end of the string.
StrptimeNoEndCheck(v) ==
    LET none == [day |-> 0, hour |-> 0, minute |-> 0]
        m    == MatchFormat(v.chars)
        h12  == IntOf(m.I)
        ampm == LowerChar(m.p[1])
        hour == IF ampm = "a"
                THEN (IF h12 = 12 THEN 0 ELSE h12)
                ELSE (IF h12 = 12 THEN 12 ELSE h12 + 12)
    IN  IF v.type # "str"
        THEN [ok |-> FALSE, exc |-> "TypeError", dt |-> none]
        ELSE IF ~m.found
        THEN [ok |-> FALSE, exc |-> "ValueError", dt |-> none]
        ELSE [ok |-> TRUE, exc |-> "",
              dt |-> [day |-> 0, hour |-> hour, minute |-> IntOf(m.M)]]

\* strptime: [ok, exc, dt].  TypeError for a non-string, ValueError when the
\* format does not match or unconverted data remains.
\* Strptime with the hour 12 taken as 0 in both halves of the day.
StrptimeNoonIsMidnight(v) ==
    LET none == [day |-> StrptimeDay, hour |-> 0, minute |-> 0]
        m    == MatchFormat(v.chars)
        h12  == IntOf(m.I)
        ampm == LowerChar(m.p[1])
        hour == IF ampm = "a" THEN h12 % 12 ELSE (h12 % 12) + 12
    IN  IF v.type # "str"
        THEN [ok |-> FALSE, exc |-> "TypeError", dt |-> none]
        ELSE IF ~m.found \/ m.end # Len(v.chars) + 1
        THEN [ok |-> FALSE, exc |-> "ValueError", dt |-> none]
        ELSE [ok |-> TRUE, exc |-> "",
              dt |-> [day |-> StrptimeDay,
                      hour |-> IF h12 = 12 THEN 0 ELSE hour,
                      minute |-> IntOf(m.M)]]

Strptime(v) ==
    LET none == [day |-> StrptimeDay, hour |-> 0, minute |-> 0]
        m    == MatchFormat(v.chars)
        h12  == IntOf(m.I)
        ampm == LowerChar(m.p[1])
        hour == IF ampm = "a"
                THEN (IF h12 = 12 THEN 0 ELSE h12)
                ELSE (IF h12 = 12 THEN 12 ELSE h12 + 12)
    IN  IF v.type # "str"
        THEN [ok |-> FALSE, exc |-> "TypeError", dt |-> none]
        ELSE IF ~m.found \/ m.end # Len(v.chars) + 1
        THEN [ok |-> FALSE, exc |-> "ValueError", dt |-> none]
        ELSE [ok |-> TRUE, exc |-> "",
              dt |-> [day |-> StrptimeDay, hour |-> hour,
                      minute |-> IntOf(m.M)]]

(***************************************************************************)
(* dhuhr_dt - datetime.timedelta(minutes=5)                                *)
(***************************************************************************)
ZawalOffsetMinutes == 5

MinutesPerDay == 1440

\* DatetimeMinusMinutes with the sign of the offset wrong.
DatetimePlusMinutes(dt, minutes) ==
    LET total == dt.day * 1440 + dt.hour * 60 + dt.minute + minutes
        inDay == total % 1440
    IN  [day    |-> (total - inDay) \div 1440,
         hour   |-> inDay \div 60,
         minute |-> inDay % 60]

\* DatetimeMinusMinutes that stops at midnight instead of borrowing a day.
DatetimeMinusMinutesSaturating(dt, minutes) ==
    LET total == dt.hour * 60 + dt.minute - minutes
        inDay == IF total < 0 THEN 0 ELSE total
    IN  [day    |-> dt.day,
         hour   |-> inDay \div 60,
         minute |-> inDay % 60]

\* datetime minus a timedelta of `minutes` minutes, with the borrow into the
\* date that datetime arithmetic performs.
DatetimeMinusMinutes(dt, minutes) ==
    LET total == dt.day * MinutesPerDay + dt.hour * 60 + dt.minute - minutes
        inDay == total % MinutesPerDay
    IN  [day    |-> (total - inDay) \div MinutesPerDay,
         hour   |-> inDay \div 60,
         minute |-> inDay % 60]

(***************************************************************************)
(* zawal_dt.strftime("%I:%M %p"): the date is not part of the format.      *)
(***************************************************************************)
\* Strftime with %H in place of %I.
StrftimeHour24(dt) ==
    TwoDigits(dt.hour) \o <<":">> \o TwoDigits(dt.minute) \o <<" ">>
      \o (IF dt.hour < 12 THEN <<"A", "M">> ELSE <<"P", "M">>)

\* Strftime with the format "%H:%M": 24-hour clock, no AM or PM.
StrftimeNoMeridiem(dt) ==
    TwoDigits(dt.hour) \o <<":">> \o TwoDigits(dt.minute)

Strftime(dt) ==
    LET h12 == IF dt.hour % 12 = 0 THEN 12 ELSE dt.hour % 12
    IN  TwoDigits(h12) \o <<":">> \o TwoDigits(dt.minute) \o <<" ">>
          \o (IF dt.hour < 12 THEN <<"A", "M">> ELSE <<"P", "M">>)

\* FallbackTime as a value no successful call returns.
FallbackNoTime == <<"-", "-", ":", "-", "-", " ", "-", "-">>

\* The literal of the except branch.

FallbackTime == <<"1", "1", ":", "4", "5", " ", "A", "M">>

(***************************************************************************)
(* dict: a sequence of <<key, value>> pairs in insertion order             *)
(***************************************************************************)
DictKeys(d) == [i \in 1..Len(d) |-> d[i][1]]

DictHas(d, k) == \E i \in 1..Len(d) : d[i][1] = k

\* d.get(k, default) asked for a key that d does not have.
DictGetMissing(d, k, default) == default

\* d.get(k, default)
DictGet(d, k, default) ==
    IF DictHas(d, k)
    THEN d[CHOOSE i \in 1..Len(d) : d[i][1] = k][2]
    ELSE default

\* d[k] = v: the position of an existing key is kept, a new key is appended.
DictSet(d, k, v) ==
    IF DictHas(d, k)
    THEN [i \in 1..Len(d) |-> IF d[i][1] = k THEN <<k, v>> ELSE d[i]]
    ELSE Append(d, <<k, v>>)

\* del d[k] for a key that is present.
DictDel(d, k) ==
    LET i == CHOOSE j \in 1..Len(d) : d[j][1] = k
    IN  SubSeq(d, 1, i - 1) \o SubSeq(d, i + 1, Len(d))

\* list(d.items())
DictItems(d) == d

(***************************************************************************)
(* The literal prayer_times_data of get_prayer_times                       *)
(***************************************************************************)
PrayerTimesData == [
    Karachi |-> <<
        <<"fajr", <<"0", "5", ":", "1", "5", " ", "A", "M">>>>,
        <<"sunrise", <<"0", "6", ":", "4", "5", " ", "A", "M">>>>,
        <<"dhuhr", <<"1", "2", ":", "3", "0", " ", "P", "M">>>>,
        <<"asr", <<"0", "4", ":", "0", "0", " ", "P", "M">>>>,
        <<"maghrib", <<"0", "6", ":", "4", "5", " ", "P", "M">>>>,
        <<"isha", <<"0", "8", ":", "1", "5", " ", "P", "M">>>> >>,
    Lahore |-> <<
        <<"fajr", <<"0", "4", ":", "4", "5", " ", "A", "M">>>>,
        <<"sunrise", <<"0", "6", ":", "1", "5", " ", "A", "M">>>>,
        <<"dhuhr", <<"1", "2", ":", "1", "5", " ", "P", "M">>>>,
        <<"asr", <<"0", "3", ":", "4", "5", " ", "P", "M">>>>,
        <<"maghrib", <<"0", "6", ":", "3", "0", " ", "P", "M">>>>,
        <<"isha", <<"0", "8", ":", "0", "0", " ", "P", "M">>>> >>,
    Islamabad |-> <<
        <<"fajr", <<"0", "4", ":", "3", "0", " ", "A", "M">>>>,
        <<"sunrise", <<"0", "6", ":", "0", "0", " ", "A", "M">>>>,
        <<"dhuhr", <<"1", "2", ":", "1", "0", " ", "P", "M">>>>,
        <<"asr", <<"0", "3", ":", "4", "0", " ", "P", "M">>>>,
        <<"maghrib", <<"0", "6", ":", "2", "5", " ", "P", "M">>>>,
        <<"isha", <<"0", "7", ":", "5", "5", " ", "P", "M">>>> >>,
    Peshawar |-> <<
        <<"fajr", <<"0", "4", ":", "3", "5", " ", "A", "M">>>>,
        <<"sunrise", <<"0", "6", ":", "0", "5", " ", "A", "M">>>>,
        <<"dhuhr", <<"1", "2", ":", "2", "0", " ", "P", "M">>>>,
        <<"asr", <<"0", "3", ":", "5", "0", " ", "P", "M">>>>,
        <<"maghrib", <<"0", "6", ":", "3", "5", " ", "P", "M">>>>,
        <<"isha", <<"0", "8", ":", "0", "5", " ", "P", "M">>>> >>,
    Quetta |-> <<
        <<"fajr", <<"0", "5", ":", "0", "0", " ", "A", "M">>>>,
        <<"sunrise", <<"0", "6", ":", "3", "0", " ", "A", "M">>>>,
        <<"dhuhr", <<"1", "2", ":", "4", "0", " ", "P", "M">>>>,
        <<"asr", <<"0", "4", ":", "1", "0", " ", "P", "M">>>>,
        <<"maghrib", <<"0", "7", ":", "0", "0", " ", "P", "M">>>>,
        <<"isha", <<"0", "8", ":", "3", "0", " ", "P", "M">>>> >> ]

\* The key of the default entry, prayer_times_data["Karachi"].
DefaultCity == "Karachi"

\* The default of the parameter, def get_prayer_times(city="Karachi").
DefaultCityArgument == "Karachi"

(***************************************************************************)
(* State                                                                   *)
(*                                                                         *)
(* A caller is a thread of control that calls the two functions directly   *)
(* (any client of the two functions) or runs the prayer-time section of    *)
(* main() (a script run of the page).                                      *)
(***************************************************************************)
VARIABLES
    pc,     \* pc[p]: the statement caller p is at ("idle": not in a call)
    ctx,    \* ctx[p]: who gets the return value: "direct" caller or "render"
    frame,  \* frame[s]: the locals of the function invocation in slot s
    main,   \* main[p]: the locals of main() that the prayer-time section uses
    heap,   \* heap[a]: the prayer_times_data object at address a
    held,   \* held[p]: the reference a direct caller keeps to a returned dict
    obs,    \* obs[p]: the direct call in progress or just completed:
            \* its arguments, the date it was made on, the line it
            \* returned from (via) and what it returned; when the
            \* caller passes results on to the next call, the
            \* argument of the first call (start) and the number
            \* of calls so far (n)
    today,  \* the date of the system clock, in days since the session began
    runs    \* the script runs of the page started so far in the session

vars == <<pc, ctx, frame, main, heap, held, obs, today, runs>>

\* A reference to the inner dict of `city` in the catalog object at `addr`;
\* addresses of objects are positive.
NoRef == [addr |-> 0, city |-> ""]

NoAddr == NoRef.addr

UnboundValue == [type |-> "unbound", chars |-> <<>>]

UnboundDatetime == [day |-> 0, hour |-> 0, minute |-> 0]

\* The locals of get_prayer_times (city, prayer_times_data), of
\* get_zawal_time (dhuhr_time, dhuhr_dt, zawal_dt, e) and of
\* load_islamic_images (images, and the position of its loop over
\* image_files); `bound` holds the names that have a value: reading another
\* one raises UnboundLocalError.
EmptyFrame ==
    [bound             |-> {},
     images            |-> <<>>,
     file_idx          |-> 0,
     city              |-> "",
     prayer_times_data |-> NoAddr,
     dhuhr_time        |-> UnboundValue,
     dhuhr_dt          |-> UnboundDatetime,
     zawal_dt          |-> UnboundDatetime,
     e                 |-> ""]

\* The locals of main() and what the script run has put on the page so far
\* (warnings, shown, zawal_shown, search_shown, gallery); run, reads, answers, trace and
\* zawal_via record the run: its number in the session, the file-system
\* calls it made and what they answered, its calls of the two functions and
\* the line get_zawal_time returned from.
EmptyMain ==
    [run             |-> 0,
     reads           |-> <<>>,
     answers         |-> <<>>,
     trace           |-> <<>>,
     zawal_via       |-> "",
     islamic_images  |-> <<>>,
     warnings        |-> <<>>,
     gregorian_date  |-> <<>>,
     hijri_date      |-> <<>>,
     current_islamic_month |-> <<>>,
     gallery         |-> <<>>,
     selected_city |-> "",
     prayer_times  |-> NoRef,
     cols          |-> 0,
     prayers       |-> <<>>,
     i             |-> 0,
     shown         |-> <<>>,
     dhuhr_time    |-> <<>>,
     zawal_time    |-> <<>>,
     zawal_shown   |-> <<>>,
     search_term   |-> UnboundValue,
     found_hadiths |-> <<>>,
     found_verses  |-> <<>>,
     search_shown  |-> <<>>,
     error         |-> ""]

NoArgument == [given |-> FALSE, value |-> ""]

NoOffset == [given |-> FALSE, value |-> 0]

NoObs ==
    [fn     |-> "none",
     city   |-> NoArgument,
     time   |-> UnboundValue,
     offset |-> NoOffset,
     date   |-> 0,
     start  |-> UnboundValue,
     n      |-> 0,
     via    |-> "",
     done   |-> FALSE,
     exc    |-> "",
     dict   |-> <<>>,
     str    |-> <<>>]

\* FrameOf with the locals made module-level names (global statements):
\* every invocation then uses the one slot.
SharedFrame(p) == 1

\* Each invocation of a Python function has its own locals: a frame.
FrameOf(p) == p

(***************************************************************************)
(* Objects: prayer_times_data is a dict literal, evaluated at every call   *)
(***************************************************************************)
Restrict(f, S) == [a \in S |-> f[a]]

\* An address no live object has.  Addresses are opaque (only compared for
\* equality), so the allocator is free in its choice: it hands caller p the
\* least free address congruent to p modulo the number of callers.
FreshAddr(h, p) ==
    LET n == Cardinality(DOMAIN pc)
        free == {a \in 1..(n * (Cardinality(DOMAIN h) + 1)) :
                    a % n = p % n /\ a \notin DOMAIN h}
    IN  CHOOSE a \in free : \A b \in free : a <= b

\* AllocateCatalog with the dict kept from one call to the next (a
\* module-level table): a live catalog object is used again as it is.
ReuseCatalog(h, p) ==
    IF DOMAIN h # {}
    THEN [addr |-> CHOOSE a \in DOMAIN h : \A b \in DOMAIN h : a <= b,
          heap |-> h]
    ELSE [addr |-> FreshAddr(h, p),
          heap |-> [x \in {FreshAddr(h, p)} |-> PrayerTimesData]]

\* AllocateCatalog with times worked out for the current date: after the
\* first day fajr in Karachi is a minute later.
AllocateCatalogForDate(h, p) ==
    LET a   == FreshAddr(h, p)
        lit == IF today = 0 THEN PrayerTimesData
               ELSE [PrayerTimesData EXCEPT !["Karachi"] =
                        DictSet(@, "fajr",
                                <<"0", "5", ":", "1", "6", " ", "A", "M">>)]
    IN  [addr |-> a,
         heap |-> [x \in DOMAIN h \cup {a} |-> IF x = a THEN lit ELSE h[x]]]

\* AllocateCatalog with two entries of Quetta's literal in each other's
\* place: maghrib before asr.
AllocateCatalogUnordered(h, p) ==
    LET a   == FreshAddr(h, p)
        q   == PrayerTimesData["Quetta"]
        lit == [PrayerTimesData EXCEPT !["Quetta"] =
                   [i \in 1..Len(q) |->
                       IF i = 4 THEN q[5] ELSE IF i = 5 THEN q[4] ELSE q[i]]]
    IN  [addr |-> a,
         heap |-> [x \in DOMAIN h \cup {a} |-> IF x = a THEN lit ELSE h[x]]]

\* prayer_times_data = {...}: a new object holding the literal.
AllocateCatalog(h, p) ==
    LET a == FreshAddr(h, p)
    IN  [addr |-> a,
         heap |-> [x \in DOMAIN h \cup {a} |->
                      IF x = a THEN PrayerTimesData ELSE h[x]]]

\* The addresses some variable refers to.
Live(heldV, frameV, mainV) ==
    ({heldV[q].addr : q \in DOMAIN heldV}
       \cup {frameV[s].prayer_times_data : s \in DOMAIN frameV}
       \cup {mainV[q].prayer_times.addr : q \in DOMAIN mainV}) \ {NoAddr}

\* Reference counting frees an object when the last reference goes.
Collect(h, heldV, frameV, mainV) ==
    Restrict(h, DOMAIN h \cap Live(heldV, frameV, mainV))

Deref(h, ref) == h[ref.addr][ref.city]

(***************************************************************************)
(* get_prayer_times(city="Karachi")                                        *)
(***************************************************************************)
\* LookupKey that never finds the key.
LookupKeyAlwaysDefault(data, city) == DefaultCity

\* LookupKey that normalises the letter case of the city before the lookup.
LookupKeyIgnoringCase(data, city) ==
    LET title == CASE city \in {"karachi", "KARACHI"} -> "Karachi"
                   [] city \in {"lahore", "LAHORE"} -> "Lahore"
                   [] city \in {"islamabad"} -> "Islamabad"
                   [] city \in {"peshawar"} -> "Peshawar"
                   [] city \in {"quetta", "QUETTA"} -> "Quetta"
                   [] OTHER -> city
    IN  IF title \in DOMAIN data THEN title ELSE DefaultCity

\* prayer_times_data.get(city, prayer_times_data["Karachi"]): the key whose
\* value is returned.
LookupKey(data, city) ==
    IF city \in DOMAIN data THEN city ELSE DefaultCity

\* A return: the frame goes, the value goes to the direct caller or to the
\* local of main() the call assigns, an exception propagates.
FinishCall(p, kind, ref, str, exc) ==
    /\ frame' = [frame EXCEPT ![FrameOf(p)] = EmptyFrame]
    /\ ctx' = [ctx EXCEPT ![p] = "none"]
    /\ IF ctx[p] = "render"
       THEN /\ main' = [main EXCEPT ![p] =
                          IF exc # "" THEN [@ EXCEPT !.error = exc]
                          ELSE IF kind = "dict"
                          THEN [@ EXCEPT !.prayer_times = ref]
                          ELSE [@ EXCEPT !.zawal_time = str,
                                         !.zawal_via = pc[p]]]
            /\ pc' = [pc EXCEPT ![p] =
                        IF exc # "" THEN "main_error"
                        ELSE IF kind = "dict" THEN "main_639"
                        ELSE "main_649"]
            /\ UNCHANGED <<held, obs>>
       ELSE /\ obs' = [obs EXCEPT ![p] =
                         [@ EXCEPT !.done = TRUE,
                                   !.via  = pc[p],
                                   !.exc  = exc,
                                   !.dict = IF kind = "dict" /\ exc = ""
                                            THEN Deref(heap, ref) ELSE <<>>,
                                   !.str  = IF kind = "str" /\ exc = ""
                                            THEN str ELSE <<>>]]
            /\ held' = [held EXCEPT ![p] =
                          IF kind = "dict" /\ exc = "" THEN ref ELSE @]
            /\ pc' = [pc EXCEPT ![p] = "returned"]
            /\ UNCHANGED main
    /\ heap' = Collect(heap, held', frame', main')
    /\ UNCHANGED <<today, runs>>

\* The call get_prayer_times(a) or get_prayer_times(): line 29 binds city.
CallGetPrayerTimes(p, a) ==
    /\ pc[p] = "idle"
    /\ pc' = [pc EXCEPT ![p] = "gpt_31"]
    /\ ctx' = [ctx EXCEPT ![p] = "direct"]
    /\ frame' = [frame EXCEPT ![FrameOf(p)] =
                   [EmptyFrame EXCEPT
                      !.bound = {"city"},
                      !.city  = IF a.given THEN a.value
                                ELSE DefaultCityArgument]]
    /\ obs' = [obs EXCEPT ![p] =
                 [NoObs EXCEPT !.fn = "get_prayer_times", !.city = a,
                               !.date = today]]
    /\ UNCHANGED <<today, runs, main, heap, held>>

\* Lines 31-72: prayer_times_data = {...}
GPT_Build(p) ==
    /\ pc[p] = "gpt_31"
    /\ LET r == AllocateCatalog(heap, p)
       IN  /\ heap' = r.heap
           /\ frame' = [frame EXCEPT ![FrameOf(p)] =
                          [@ EXCEPT !.bound = @ \cup {"prayer_times_data"},
                                    !.prayer_times_data = r.addr]]
    /\ pc' = [pc EXCEPT ![p] = "gpt_74"]
    /\ UNCHANGED <<today, runs, ctx, main, held, obs>>

\* Line 74: return prayer_times_data.get(city, prayer_times_data["Karachi"])
GPT_Return(p) ==
    /\ pc[p] = "gpt_74"
    /\ LET f == frame[FrameOf(p)]
       IN  IF /\ {"city", "prayer_times_data"} \subseteq f.bound
              /\ f.prayer_times_data \in DOMAIN heap
           THEN FinishCall(p, "dict",
                           [addr |-> f.prayer_times_data,
                            city |-> LookupKey(heap[f.prayer_times_data],
                                               f.city)],
                           <<>>, "")
           ELSE FinishCall(p, "dict", NoRef, <<>>, "UnboundLocalError")

(***************************************************************************)
(* get_zawal_time(dhuhr_time)                                              *)
(***************************************************************************)
\* The call get_zawal_time(v): line 76 binds dhuhr_time.
CallGetZawalTime(p, v) ==
    /\ pc[p] = "idle"
    /\ pc' = [pc EXCEPT ![p] = "gz_81"]
    /\ ctx' = [ctx EXCEPT ![p] = "direct"]
    /\ frame' = [frame EXCEPT ![FrameOf(p)] =
                   [EmptyFrame EXCEPT !.bound = {"dhuhr_time"},
                                      !.dhuhr_time = v]]
    /\ obs' = [obs EXCEPT ![p] =
                 [NoObs EXCEPT !.fn = "get_zawal_time", !.time = v,
                               !.date = today, !.start = v, !.n = 1]]
    /\ UNCHANGED <<today, runs, main, heap, held>>

\* The caller applies get_zawal_time again at most MaxApplications times.
MaxApplications == 290

\* The call get_zawal_time(r) where r is what the call before returned.
CallGetZawalTimeAgain(p) ==
    /\ pc[p] = "returned"
    /\ obs[p].fn = "get_zawal_time" /\ obs[p].done /\ obs[p].exc = ""
    /\ obs[p].n < MaxApplications
    /\ pc' = [pc EXCEPT ![p] = "gz_81"]
    /\ ctx' = [ctx EXCEPT ![p] = "direct"]
    /\ frame' = [frame EXCEPT ![FrameOf(p)] =
                   [EmptyFrame EXCEPT !.bound = {"dhuhr_time"},
                                      !.dhuhr_time = PyStr(obs[p].str)]]
    /\ obs' = [obs EXCEPT ![p] =
                 [NoObs EXCEPT !.fn = "get_zawal_time",
                               !.time = PyStr(obs[p].str),
                               !.date = today,
                               !.start = obs[p].start,
                               !.n = obs[p].n + 1]]
    /\ UNCHANGED <<today, runs, main, heap, held>>

\* The call get_zawal_time(v, off): the function of line 76 has the one
\* parameter dhuhr_time, so binding the arguments raises TypeError in the
\* caller, before the try of line 78 is entered.
CallGetZawalTimeWithOffset(p, v, off) ==
    /\ pc[p] = "idle"
    /\ pc' = [pc EXCEPT ![p] = "returned"]
    /\ obs' = [obs EXCEPT ![p] =
                 [NoObs EXCEPT !.fn = "get_zawal_time", !.time = v,
                               !.offset = [given |-> TRUE, value |-> off],
                               !.date = today,
                               !.done = TRUE, !.exc = "TypeError"]]
    /\ UNCHANGED <<today, runs, ctx, frame, main, heap, held>>

\* Line 81: dhuhr_dt = datetime.datetime.strptime(dhuhr_time, "%I:%M %p")
GZ_Parse(p) ==
    /\ pc[p] = "gz_81"
    /\ LET f == frame[FrameOf(p)]
           r == IF "dhuhr_time" \in f.bound THEN Strptime(f.dhuhr_time)
                ELSE [ok |-> FALSE, exc |-> "UnboundLocalError",
                      dt |-> UnboundDatetime]
       IN  IF r.ok
           THEN /\ frame' = [frame EXCEPT ![FrameOf(p)] =
                               [@ EXCEPT !.bound = @ \cup {"dhuhr_dt"},
                                         !.dhuhr_dt = r.dt]]
                /\ pc' = [pc EXCEPT ![p] = "gz_83"]
           ELSE /\ frame' = [frame EXCEPT ![FrameOf(p)] =
                               [@ EXCEPT !.e = r.exc]]
                /\ pc' = [pc EXCEPT ![p] = "gz_87"]
    /\ UNCHANGED <<today, runs, ctx, main, heap, held, obs>>

\* Line 83: zawal_dt = dhuhr_dt - datetime.timedelta(minutes=5)
GZ_Subtract(p) ==
    /\ pc[p] = "gz_83"
    /\ LET f == frame[FrameOf(p)]
       IN  IF "dhuhr_dt" \in f.bound
           THEN /\ frame' = [frame EXCEPT ![FrameOf(p)] =
                               [@ EXCEPT !.bound = @ \cup {"zawal_dt"},
                                         !.zawal_dt = DatetimeMinusMinutes(
                                             f.dhuhr_dt, ZawalOffsetMinutes)]]
                /\ pc' = [pc EXCEPT ![p] = "gz_84"]
           ELSE /\ frame' = [frame EXCEPT ![FrameOf(p)] =
                               [@ EXCEPT !.e = "UnboundLocalError"]]
                /\ pc' = [pc EXCEPT ![p] = "gz_87"]
    /\ UNCHANGED <<today, runs, ctx, main, heap, held, obs>>

\* Line 84: return zawal_dt.strftime("%I:%M %p")
GZ_Format(p) ==
    /\ pc[p] = "gz_84"
    /\ LET f == frame[FrameOf(p)]
       IN  IF "zawal_dt" \in f.bound
           THEN FinishCall(p, "str", NoRef, Strftime(f.zawal_dt), "")
           ELSE /\ frame' = [frame EXCEPT ![FrameOf(p)] =
                               [@ EXCEPT !.e = "UnboundLocalError"]]
                /\ pc' = [pc EXCEPT ![p] = "gz_87"]
                /\ UNCHANGED <<today, runs, ctx, main, heap, held, obs>>

\* Lines 85-87: except Exception as e: return "11:45 AM"
GZ_Except(p) ==
    /\ pc[p] = "gz_87"
    /\ FinishCall(p, "str", NoRef, FallbackTime, "")

(***************************************************************************)
(* The direct caller after a return                                        *)
(***************************************************************************)
\* The caller is done with the result and keeps no reference to it.
Consume(p) ==
    /\ pc[p] = "returned"
    /\ pc' = [pc EXCEPT ![p] = "idle"]
    /\ obs' = [obs EXCEPT ![p] = NoObs]
    /\ held' = [held EXCEPT ![p] = NoRef]
    /\ heap' = Collect(heap, held', frame, main)
    /\ UNCHANGED <<today, runs, ctx, frame, main>>

\* The caller goes on and keeps the dict it received.
Keep(p) ==
    /\ pc[p] = "returned"
    /\ pc' = [pc EXCEPT ![p] = "idle"]
    /\ obs' = [obs EXCEPT ![p] = NoObs]
    /\ UNCHANGED <<today, runs, ctx, frame, main, heap, held>>

\* A value no prayer time has, written by a caller into a dict it received.
ForeignTime == <<"x">>

\* The caller changes the dict it received: del d[k], or d[k] = "x".
CallerMutates(p, op, k) ==
    /\ pc[p] = "idle"
    /\ held[p] # NoRef
    /\ DictHas(Deref(heap, held[p]), k)
    /\ DictGet(Deref(heap, held[p]), k, <<>>) # ForeignTime
    /\ heap' = [heap EXCEPT ![held[p].addr][held[p].city] =
                  IF op = "del" THEN DictDel(@, k)
                  ELSE DictSet(@, k, ForeignTime)]
    /\ UNCHANGED <<today, runs, pc, ctx, frame, main, held, obs>>

\* The caller drops the dict it received.
CallerDrops(p) ==
    /\ pc[p] = "idle"
    /\ held[p] # NoRef
    /\ held' = [held EXCEPT ![p] = NoRef]
    /\ heap' = Collect(heap, held', frame, main)
    /\ UNCHANGED <<today, runs, pc, ctx, frame, main, obs>>

(***************************************************************************)
(* get_accurate_hijri_date(), get_current_islamic_month() and today's date *)
(***************************************************************************)
\* get_accurate_hijri_date that follows the clock (the placeholder of lines
\* 17-21 made live): the day of the month moves with the date.
GetAccurateHijriDateLive ==
    TwoDigits(18 + today) \o
    <<" ", "u062C", "u0645", "u0627", "u062F", "u06CC", " ", "u0627",
      "u0644", "u062B", "u0627", "u0646", "u06CC", ",", " ", "1", "4", "4",
      "6", " ", "u06C1", "u062C", "u0631", "u06CC">>

\* Line 23: the string get_accurate_hijri_date returns, by code point.
GetAccurateHijriDate ==
    <<"1", "8", " ", "u062C", "u0645", "u0627", "u062F", "u06CC", " ",
      "u0627", "u0644", "u062B", "u0627", "u0646", "u06CC", ",", " ", "1",
      "4", "4", "6", " ", "u06C1", "u062C", "u0631", "u06CC">>

\* Line 27: the string get_current_islamic_month returns, by code point.
GetCurrentIslamicMonth ==
    <<"u062C", "u0645", "u0627", "u062F", "u06CC", " ", "u0627", "u0644",
      "u062B", "u0627", "u0646", "u06CC">>

\* The date on which the session begins: the Gregorian date the docstring of
\* get_accurate_hijri_date names (line 14).
SessionStart == [year |-> 2025, month |-> 10, day |-> 18]

MonthNames ==
    [m \in {10, 11} |->
        IF m = 10 THEN <<"O", "c", "t", "o", "b", "e", "r">>
        ELSE <<"N", "o", "v", "e", "m", "b", "e", "r">>]

\* datetime.date.today() when the clock stands n days after SessionStart
\* (n below 44: October has 31 days, November 30).
DateOfDay(n) ==
    LET d == SessionStart.day + n
    IN  IF d <= 31
        THEN [SessionStart EXCEPT !.day = d]
        ELSE [SessionStart EXCEPT !.month = 11, !.day = d - 31]

\* Line 621: strftime("%d %B, %Y")
StrftimeDate(d) ==
    TwoDigits(d.day) \o <<" ">> \o MonthNames[d.month] \o <<",", " ">>
      \o TwoDigits(d.year \div 100) \o TwoDigits(d.year % 100)

(***************************************************************************)
(* load_islamic_images()                                                   *)
(***************************************************************************)
\* Line 92: image_folder
ImageFolder == "islamic"

\* Lines 100-105: image_files, in the order of the literal.
ImageFiles ==
    <<<<"masjid_haram", "101.jpg">>, <<"masjid_nabwi", "102.jpg">>,
      <<"masjid_aqsa", "103.jpg">>, <<"fateh_makkah", "104.jpg">>>>

\* os.path.join(image_folder, filename)
PathJoin(folder, filename) == <<folder, "/", filename>>

\* What the file system answers for one file: there is no such file, the
\* file is there and Image.open raises, the file is there and opens.
FileOutcomes == {"missing", "unreadable", "ok"}

\* The object Image.open(path) returns.
ImageOf(path) == [image |-> path]

\* The body of the loop with no try around Image.open: the exception leaves
\* load_islamic_images.
LoadOneUncaught(images, name, filename, outcome) ==
    LET path == PathJoin(ImageFolder, filename)
    IN  CASE outcome = "ok" ->
               [images |-> DictSet(images, name, ImageOf(path)),
                warnings |-> <<>>, exc |-> "",
                reads |-> <<<<"exists", path>>, <<"open", path>>>>]
          [] outcome = "unreadable" ->
               [images |-> images, warnings |-> <<>>, exc |-> "OSError",
                reads |-> <<<<"exists", path>>, <<"open", path>>>>]
          [] OTHER ->
               [images |-> images,
                warnings |-> <<<<"file_missing", path>>>>, exc |-> "",
                reads |-> <<<<"exists", path>>>>]

\* Lines 109-116: the body of the loop for one (image_name, filename).
LoadOne(images, name, filename, outcome) ==
    LET path == PathJoin(ImageFolder, filename)
    IN  CASE outcome = "ok" ->
               [images |-> DictSet(images, name, ImageOf(path)),
                warnings |-> <<>>, exc |-> "",
                reads |-> <<<<"exists", path>>, <<"open", path>>>>]
          [] outcome = "unreadable" ->
               [images |-> images,
                warnings |-> <<<<"load_failed", filename>>>>, exc |-> "",
                reads |-> <<<<"exists", path>>, <<"open", path>>>>]
          [] OTHER ->
               [images |-> images,
                warnings |-> <<<<"file_missing", path>>>>, exc |-> "",
                reads |-> <<<<"exists", path>>>>]

\* Lines 95-97 and 100: os.path.exists(image_folder) answers `exists`; with
\* no folder a warning is shown and the empty dict returned.
LI_CheckFolder(p, exists) ==
    /\ pc[p] = "li_95"
    /\ IF exists
       THEN /\ main' = [main EXCEPT ![p] =
                          [@ EXCEPT !.reads =
                              Append(@, <<"exists", <<ImageFolder>>>>),
                                    !.answers = Append(@, "folder")]]
            /\ frame' = [frame EXCEPT ![FrameOf(p)] =
                           [@ EXCEPT !.file_idx = 0]]
            /\ pc' = [pc EXCEPT ![p] = "li_109"]
       ELSE /\ main' = [main EXCEPT ![p] =
                          [@ EXCEPT !.reads =
                              Append(@, <<"exists", <<ImageFolder>>>>),
                                    !.answers = Append(@, "no folder"),
                                    !.warnings =
                              Append(@, <<"folder_missing", <<ImageFolder>>>>),
                                    !.islamic_images = frame[FrameOf(p)].images]]
            /\ frame' = [frame EXCEPT ![FrameOf(p)] = EmptyFrame]
            /\ pc' = [pc EXCEPT ![p] = "main_576"]
    /\ UNCHANGED <<ctx, heap, held, obs, today, runs>>

\* Lines 108-116: one iteration of the loop over image_files.items().
LI_File(p, outcome) ==
    /\ pc[p] = "li_109"
    /\ frame[FrameOf(p)].file_idx < Len(ImageFiles)
    /\ LET f == frame[FrameOf(p)]
           e == ImageFiles[f.file_idx + 1]
           r == LoadOne(f.images, e[1], e[2], outcome)
       IN  /\ main' = [main EXCEPT ![p] =
                         [@ EXCEPT !.reads = @ \o r.reads,
                                   !.answers = Append(@, outcome),
                                   !.warnings = @ \o r.warnings,
                                   !.error = r.exc]]
           /\ IF r.exc = ""
              THEN /\ frame' = [frame EXCEPT ![FrameOf(p)] =
                                  [@ EXCEPT !.images = r.images,
                                            !.file_idx = @ + 1]]
                   /\ pc' = pc
              ELSE /\ frame' = [frame EXCEPT ![FrameOf(p)] = EmptyFrame]
                   /\ pc' = [pc EXCEPT ![p] = "main_error"]
    /\ UNCHANGED <<ctx, heap, held, obs, today, runs>>

\* Line 118: return images, once the loop has ended; line 450 binds
\* islamic_images.
LI_Return(p) ==
    /\ pc[p] = "li_109"
    /\ frame[FrameOf(p)].file_idx = Len(ImageFiles)
    /\ main' = [main EXCEPT ![p] =
                  [@ EXCEPT !.islamic_images = frame[FrameOf(p)].images]]
    /\ frame' = [frame EXCEPT ![FrameOf(p)] = EmptyFrame]
    /\ pc' = [pc EXCEPT ![p] = "main_576"]
    /\ UNCHANGED <<ctx, heap, held, obs, today, runs>>

(***************************************************************************)
(* main(): one script run of the page                                      *)
(***************************************************************************)
\* The script runs at most MaxRuns times in the session.
MaxRuns == 2

\* SelectOptions with a city the catalog does not have.
SelectOptionsWithMultan ==
    <<"Karachi", "Lahore", "Islamabad", "Peshawar", "Quetta", "Multan">>

\* Line 576: the options of st.selectbox.
SelectOptions == <<"Karachi", "Lahore", "Islamabad", "Peshawar", "Quetta">>

\* NumColumns one short.
FewerColumns == 6 - 1

\* Line 639: st.columns(6)
NumColumns == 6

\* Line 647: the default of prayer_times.get("dhuhr", "12:30 PM")
DefaultDhuhr == <<"1", "2", ":", "3", "0", " ", "P", "M">>

\* Lines 1011-1042: the images of the gallery, in the order of the page.
GalleryNames ==
    <<"masjid_haram", "masjid_nabwi", "masjid_aqsa", "fateh_makkah">>

\* Lines 1113 and 440-447: a script run begins: main() is called with new
\* locals and an empty page.
Main_Start(p) ==
    /\ pc[p] = "idle"
    /\ held[p] = NoRef
    /\ runs < MaxRuns
    /\ runs' = runs + 1
    /\ main' = [main EXCEPT ![p] = [EmptyMain EXCEPT !.run = runs + 1]]
    /\ pc' = [pc EXCEPT ![p] = "main_450"]
    /\ UNCHANGED <<ctx, frame, heap, held, obs, today>>

\* Line 450: the call load_islamic_images(); lines 91-92 bind images = {}.
Main_LoadImages(p) ==
    /\ pc[p] = "main_450"
    /\ frame' = [frame EXCEPT ![FrameOf(p)] =
                   [EmptyFrame EXCEPT !.bound = {"images", "image_folder"},
                                      !.images = <<>>]]
    /\ pc' = [pc EXCEPT ![p] = "li_95"]
    /\ UNCHANGED <<ctx, main, heap, held, obs, today, runs>>

\* Line 576: selected_city is the option chosen in the sidebar.
Main_Select(p, c) ==
    /\ pc[p] = "main_576"
    /\ main' = [main EXCEPT ![p] =
                  [@ EXCEPT !.selected_city = c,
                            !.trace = Append(@, <<"selectbox", c>>)]]
    /\ pc' = [pc EXCEPT ![p] = "main_621"]
    /\ UNCHANGED <<ctx, frame, heap, held, obs, today, runs>>

\* Line 621: gregorian_date = datetime.date.today().strftime("%d %B, %Y")
Main_Gregorian(p) ==
    /\ pc[p] = "main_621"
    /\ main' = [main EXCEPT ![p] =
                  [@ EXCEPT !.gregorian_date = StrftimeDate(DateOfDay(today))]]
    /\ pc' = [pc EXCEPT ![p] = "main_625"]
    /\ UNCHANGED <<ctx, frame, heap, held, obs, today, runs>>

\* Line 625: hijri_date = get_accurate_hijri_date()
Main_Hijri(p) ==
    /\ pc[p] = "main_625"
    /\ main' = [main EXCEPT ![p] =
                  [@ EXCEPT !.hijri_date = GetAccurateHijriDate]]
    /\ pc' = [pc EXCEPT ![p] = "main_629"]
    /\ UNCHANGED <<ctx, frame, heap, held, obs, today, runs>>

\* Line 629: current_islamic_month = get_current_islamic_month()
Main_Month(p) ==
    /\ pc[p] = "main_629"
    /\ main' = [main EXCEPT ![p] =
                  [@ EXCEPT !.current_islamic_month = GetCurrentIslamicMonth]]
    /\ pc' = [pc EXCEPT ![p] = "main_636"]
    /\ UNCHANGED <<ctx, frame, heap, held, obs, today, runs>>

\* Line 636: prayer_times = get_prayer_times(selected_city) is called.
Render_Start(p) ==
    /\ pc[p] = "main_636"
    /\ main' = [main EXCEPT ![p] =
                  [@ EXCEPT !.trace = Append(@, <<"get_prayer_times",
                                                  main[p].selected_city>>)]]
    /\ frame' = [frame EXCEPT ![FrameOf(p)] =
                   [EmptyFrame EXCEPT !.bound = {"city"},
                                      !.city = main[p].selected_city]]
    /\ ctx' = [ctx EXCEPT ![p] = "render"]
    /\ pc' = [pc EXCEPT ![p] = "gpt_31"]
    /\ UNCHANGED <<heap, held, obs, today, runs>>

\* Lines 639-640: cols = st.columns(6); prayers = list(prayer_times.items())
Render_Columns(p) ==
    /\ pc[p] = "main_639"
    /\ main' = [main EXCEPT ![p] =
                  [@ EXCEPT !.cols = NumColumns,
                            !.prayers = DictItems(
                                Deref(heap, main[p].prayer_times)),
                            !.i = 0]]
    /\ pc' = [pc EXCEPT ![p] = "main_642"]
    /\ UNCHANGED <<today, runs, ctx, frame, heap, held, obs>>

\* Lines 642-644: one iteration of the loop; cols[i] raises IndexError when
\* there is no column i.
Render_Cell(p) ==
    /\ pc[p] = "main_642"
    /\ main[p].i < Len(main[p].prayers)
    /\ LET m == main[p]
       IN  IF m.i < m.cols
           THEN /\ main' = [main EXCEPT ![p] =
                              [@ EXCEPT !.shown = Append(@,
                                          <<m.i, m.prayers[m.i + 1][1],
                                            m.prayers[m.i + 1][2]>>),
                                        !.i = @ + 1]]
                /\ pc' = pc
           ELSE /\ main' = [main EXCEPT ![p] = [@ EXCEPT !.error = "IndexError"]]
                /\ pc' = [pc EXCEPT ![p] = "main_error"]
    /\ UNCHANGED <<today, runs, ctx, frame, heap, held, obs>>

\* Line 647: dhuhr_time = prayer_times.get("dhuhr", "12:30 PM"), once the
\* loop has ended.
Render_Dhuhr(p) ==
    /\ pc[p] = "main_642"
    /\ main[p].i = Len(main[p].prayers)
    /\ LET t == DictGet(Deref(heap, main[p].prayer_times), "dhuhr",
                        DefaultDhuhr)
       IN  main' = [main EXCEPT ![p] =
                      [@ EXCEPT !.dhuhr_time = t,
                                !.trace = Append(@, <<"get", "dhuhr", t>>)]]
    /\ pc' = [pc EXCEPT ![p] = "main_648"]
    /\ UNCHANGED <<today, runs, ctx, frame, heap, held, obs>>

\* Line 648: zawal_time = get_zawal_time(dhuhr_time) is called.
Render_CallZawal(p) ==
    /\ pc[p] = "main_648"
    /\ main' = [main EXCEPT ![p] =
                  [@ EXCEPT !.trace = Append(@, <<"get_zawal_time",
                                                  main[p].dhuhr_time>>)]]
    /\ frame' = [frame EXCEPT ![FrameOf(p)] =
                   [EmptyFrame EXCEPT !.bound = {"dhuhr_time"},
                                      !.dhuhr_time = PyStr(main[p].dhuhr_time)]]
    /\ ctx' = [ctx EXCEPT ![p] = "render"]
    /\ pc' = [pc EXCEPT ![p] = "gz_81"]
    /\ UNCHANGED <<today, runs, heap, held, obs>>

\* Line 649: st.success shows zawal_time.
Render_Zawal(p) ==
    /\ pc[p] = "main_649"
    /\ main' = [main EXCEPT ![p] = [@ EXCEPT !.zawal_shown = main[p].zawal_time]]
    /\ pc' = [pc EXCEPT ![p] = "main_651"]
    /\ UNCHANGED <<today, runs, ctx, frame, heap, held, obs>>

\* Lines 651-923: the sections between the prayer times and the search tab
\* show literals of the module.
Main_Sections(p) ==
    /\ pc[p] = "main_651"
    /\ pc' = [pc EXCEPT ![p] = "main_925"]
    /\ UNCHANGED <<ctx, frame, main, heap, held, obs, today, runs>>

\* The module's two lists of dicts. A text is the sequence of its code
\* points, a code point outside ASCII written "uXXXX".
HADITHS ==
    <<
      [ arabic |->
          <<"u0625", "u0646", "u0645", "u0627", " ", "u0627", "u0644", "u0623",
            "u0639", "u0645", "u0627", "u0644", " ", "u0628", "u0627", "u0644",
            "u0646", "u064A", "u0627", "u062A">>,
        urdu |->
          <<"u0627", "u0639", "u0645", "u0627", "u0644", " ", "u06A9", "u0627",
            " ", "u062F", "u0627", "u0631", "u0648", "u0645", "u062F", "u0627",
            "u0631", " ", "u0646", "u06CC", "u062A", "u0648", "u06BA", " ",
            "u067E", "u0631", " ", "u06C1", "u06D2">>,
        reference |->
          <<"u0628", "u062E", "u0627", "u0631", "u06CC">> ],
      [ arabic |->
          <<"u0645", "u0646", " ", "u062D", "u0633", "u0646", " ", "u0625",
            "u0633", "u0644", "u0627", "u0645", " ", "u0627", "u0644", "u0645",
            "u0631", "u0621", " ", "u062A", "u0631", "u0643", "u0647", " ",
            "u0645", "u0627", " ", "u0644", "u0627", " ", "u064A", "u0639",
            "u0646", "u064A", "u0647">>,
        urdu |->
          <<"u0622", "u062F", "u0645", "u06CC", " ", "u06A9", "u06D2", " ",
            "u0627", "u0633", "u0644", "u0627", "u0645", " ", "u06A9", "u06D2",
            " ", "u0627", "u0686", "u06BE", "u0627", " ", "u06C1", "u0648",
            "u0646", "u06D2", " ", "u06A9", "u06CC", " ", "u0639", "u0644",
            "u0627", "u0645", "u062A", " ", "u06CC", "u06C1", " ", "u06C1",
            "u06D2", " ", "u06A9", "u06C1", " ", "u0648", "u06C1", " ",
            "u0628", "u06CC", "u06A9", "u0627", "u0631", " ", "u0628", "u0627",
            "u062A", "u0648", "u06BA", " ", "u06A9", "u0648", " ", "u0686",
            "u06BE", "u0648", "u0691", " ", "u062F", "u06D2">>,
        reference |->
          <<"u062A", "u0631", "u0645", "u0630", "u06CC">> ],
      [ arabic |->
          <<"u0644", "u0627", " ", "u064A", "u0624", "u0645", "u0646", " ",
            "u0623", "u062D", "u062F", "u0643", "u0645", " ", "u062D", "u062A",
            "u0649", " ", "u064A", "u062D", "u0628", " ", "u0644", "u0623",
            "u062E", "u064A", "u0647", " ", "u0645", "u0627", " ", "u064A",
            "u062D", "u0628", " ", "u0644", "u0646", "u0641", "u0633", "u0647">>,
        urdu |->
          <<"u062A", "u0645", " ", "u0645", "u06CC", "u06BA", " ", "u0633",
            "u06D2", " ", "u06A9", "u0648", "u0626", "u06CC", " ", "u0634",
            "u062E", "u0635", " ", "u0627", "u0633", " ", "u0648", "u0642",
            "u062A", " ", "u062A", "u06A9", " ", "u0645", "u0648", "u0645",
            "u0646", " ", "u0646", "u06C1", "u06CC", "u06BA", " ", "u06C1",
            "u0648", "u0633", "u06A9", "u062A", "u0627", " ", "u062C", "u0628",
            " ", "u062A", "u06A9", " ", "u0627", "u067E", "u0646", "u06D2",
            " ", "u0628", "u06BE", "u0627", "u0626", "u06CC", " ", "u06A9",
            "u06D2", " ", "u0644", "u06CC", "u06D2", " ", "u0648", "u06C1",
            "u06CC", " ", "u067E", "u0633", "u0646", "u062F", " ", "u0646",
            "u06C1", " ", "u06A9", "u0631", "u06D2", " ", "u062C", "u0648",
            " ", "u0627", "u067E", "u0646", "u06D2", " ", "u0644", "u06CC",
            "u06D2", " ", "u067E", "u0633", "u0646", "u062F", " ", "u06A9",
            "u0631", "u062A", "u0627", " ", "u06C1", "u06D2">>,
        reference |->
          <<"u0628", "u062E", "u0627", "u0631", "u06CC">> ],
      [ arabic |->
          <<"u0627", "u0644", "u0643", "u0644", "u0645", "u0629", " ", "u0627",
            "u0644", "u0637", "u064A", "u0628", "u0629", " ", "u0635", "u062F",
            "u0642", "u0629">>,
        urdu |->
          <<"u0627", "u0686", "u06BE", "u06CC", " ", "u0628", "u0627", "u062A",
            " ", "u0628", "u06BE", "u06CC", " ", "u0635", "u062F", "u0642",
            "u06C1", " ", "u06C1", "u06D2">>,
        reference |->
          <<"u0628", "u062E", "u0627", "u0631", "u06CC">> ],
      [ arabic |->
          <<"u0627", "u062A", "u0642", " ", "u0627", "u0644", "u0644", "u0647",
            " ", "u062D", "u064A", "u062B", "u0645", "u0627", " ", "u0643",
            "u0646", "u062A">>,
        urdu |->
          <<"u062C", "u06C1", "u0627", "u06BA", " ", "u06A9", "u06C1", "u06CC",
            "u06BA", " ", "u0628", "u06BE", "u06CC", " ", "u06C1", "u0648",
            " ", "u0627", "u0644", "u0644", "u06C1", " ", "u0633", "u06D2",
            " ", "u0688", "u0631", "u0648">>,
        reference |->
          <<"u062A", "u0631", "u0645", "u0630", "u06CC">> ],
      [ arabic |->
          <<"u0627", "u0644", "u0637", "u0647", "u0648", "u0631", " ", "u0634",
            "u0637", "u0631", " ", "u0627", "u0644", "u0625", "u064A", "u0645",
            "u0627", "u0646">>,
        urdu |->
          <<"u067E", "u0627", "u06A9", "u06CC", "u0632", "u06AF", "u06CC", " ",
            "u0622", "u062F", "u06BE", "u0627", " ", "u0627", "u06CC", "u0645",
            "u0627", "u0646", " ", "u06C1", "u06D2">>,
        reference |->
          <<"u0645", "u0633", "u0644", "u0645">> ]
    >>

QURAN_VERSES ==
    <<
      [ arabic |->
          <<"u0625", "u0650", "u0646", "u064E", "u0651", " ", "u0645", "u064E",
            "u0639", "u064E", " ", "u0627", "u0644", "u0652", "u0639", "u064F",
            "u0633", "u0652", "u0631", "u0650", " ", "u064A", "u064F", "u0633",
            "u0652", "u0631", "u064B", "u0627">>,
        urdu |->
          <<"u0628", "u06D2", " ", "u0634", "u06A9", " ", "u0645", "u0634",
            "u06A9", "u0644", " ", "u06A9", "u06D2", " ", "u0633", "u0627",
            "u062A", "u06BE", " ", "u0622", "u0633", "u0627", "u0646", "u06CC",
            " ", "u06C1", "u06D2">>,
        surah |->
          <<"u0627", "u0644", "u0634", "u0631", "u062D">>,
        verse |->
          <<"6">> ],
      [ arabic |->
          <<"u0648", "u064E", "u0625", "u0650", "u0646", "u064E", "u0651", " ",
            "u0627", "u0644", "u0644", "u064E", "u0651", "u0647", "u064E", " ",
            "u0645", "u064E", "u0639", "u064E", " ", "u0627", "u0644", "u0635",
            "u064E", "u0651", "u0627", "u0628", "u0650", "u0631", "u0650", "u064A",
            "u0646", "u064E">>,
        urdu |->
          <<"u0627", "u0648", "u0631", " ", "u0628", "u06D2", " ", "u0634",
            "u06A9", " ", "u0627", "u0644", "u0644", "u06C1", " ", "u0635",
            "u0628", "u0631", " ", "u06A9", "u0631", "u0646", "u06D2", " ",
            "u0648", "u0627", "u0644", "u0648", "u06BA", " ", "u06A9", "u06D2",
            " ", "u0633", "u0627", "u062A", "u06BE", " ", "u06C1", "u06D2">>,
        surah |->
          <<"u0627", "u0644", "u0628", "u0642", "u0631", "u0629">>,
        verse |->
          <<"1", "5", "3">> ],
      [ arabic |->
          <<"u0631", "u064E", "u0628", "u0650", "u0651", " ", "u0632", "u0650",
            "u062F", "u0652", "u0646", "u0650", "u064A", " ", "u0639", "u0650",
            "u0644", "u0652", "u0645", "u064B", "u0627">>,
        urdu |->
          <<"u0627", "u06D2", " ", "u0645", "u06CC", "u0631", "u06D2", " ",
            "u0631", "u0628", "u060C", " ", "u0645", "u06CC", "u0631", "u06D2",
            " ", "u0639", "u0644", "u0645", " ", "u0645", "u06CC", "u06BA",
            " ", "u0627", "u0636", "u0627", "u0641", "u06C1", " ", "u0641",
            "u0631", "u0645", "u0627">>,
        surah |->
          <<"u0637", "u06C1">>,
        verse |->
          <<"1", "1", "4">> ],
      [ arabic |->
          <<"u0625", "u0650", "u0646", "u064E", "u0651", " ", "u0627", "u0644",
            "u0644", "u064E", "u0651", "u0647", "u064E", " ", "u064A", "u064F",
            "u062D", "u0650", "u0628", "u064F", "u0651", " ", "u0627", "u0644",
            "u062A", "u064E", "u0651", "u0648", "u064E", "u0651", "u0627", "u0628",
            "u0650", "u064A", "u0646", "u064E", " ", "u0648", "u064E", "u064A",
            "u064F", "u062D", "u0650", "u0628", "u064F", "u0651", " ", "u0627",
            "u0644", "u0652", "u0645", "u064F", "u062A", "u064E", "u0637", "u064E",
            "u0647", "u0650", "u0651", "u0631", "u0650", "u064A", "u0646", "u064E">>,
        urdu |->
          <<"u0628", "u06D2", " ", "u0634", "u06A9", " ", "u0627", "u0644",
            "u0644", "u06C1", " ", "u062A", "u0648", "u0628", "u06C1", " ",
            "u06A9", "u0631", "u0646", "u06D2", " ", "u0648", "u0627", "u0644",
            "u0648", "u06BA", " ", "u0627", "u0648", "u0631", " ", "u067E",
            "u0627", "u06A9", " ", "u0631", "u06C1", "u0646", "u06D2", " ",
            "u0648", "u0627", "u0644", "u0648", "u06BA", " ", "u06A9", "u0648",
            " ", "u067E", "u0633", "u0646", "u062F", " ", "u0641", "u0631",
            "u0645", "u0627", "u062A", "u0627", " ", "u06C1", "u06D2">>,
        surah |->
          <<"u0627", "u0644", "u0628", "u0642", "u0631", "u0629">>,
        verse |->
          <<"2", "2", "2">> ],
      [ arabic |->
          <<"u0642", "u064F", "u0644", "u0652", " ", "u0647", "u064F", "u0648",
            "u064E", " ", "u0627", "u0644", "u0644", "u064E", "u0651", "u0647",
            "u064F", " ", "u0623", "u064E", "u062D", "u064E", "u062F", "u064C">>,
        urdu |->
          <<"u06A9", "u06C1", "u0648", " ", "u0648", "u06C1", " ", "u0627",
            "u0644", "u0644", "u06C1", " ", "u0627", "u06CC", "u06A9", " ",
            "u06C1", "u06D2">>,
        surah |->
          <<"u0627", "u0644", "u0627", "u062E", "u0644", "u0627", "u0635">>,
        verse |->
          <<"1">> ],
      [ arabic |->
          <<"u0644", "u064E", "u0627", " ", "u0625", "u0650", "u0644", "u064E",
            "u0670", "u0647", "u064E", " ", "u0625", "u0650", "u0644", "u064E",
            "u0651", "u0627", " ", "u0627", "u0644", "u0644", "u064E", "u0651",
            "u0647", "u064F">>,
        urdu |->
          <<"u0627", "u0644", "u0644", "u06C1", " ", "u06A9", "u06D2", " ",
            "u0633", "u0648", "u0627", " ", "u06A9", "u0648", "u0626", "u06CC",
            " ", "u0645", "u0639", "u0628", "u0648", "u062F", " ", "u0646",
            "u06C1", "u06CC", "u06BA">>,
        surah |->
          <<"u0627", "u0644", "u0635", "u0627", "u0641", "u0627", "u062A">>,
        verse |->
          <<"3", "5">> ]
    >>

UpperLetters ==
    <<"A", "B", "C", "D", "E", "F", "G", "H", "I", "J", "K", "L", "M",
      "N", "O", "P", "Q", "R", "S", "T", "U", "V", "W", "X", "Y", "Z">>

LowerLetters ==
    <<"a", "b", "c", "d", "e", "f", "g", "h", "i", "j", "k", "l", "m",
      "n", "o", "p", "q", "r", "s", "t", "u", "v", "w", "x", "y", "z">>

\* str.lower(): a Latin capital becomes its small letter; the Arabic
\* letters, marks and punctuation of the texts have no case.
LowerOf ==
    [c \in {UpperLetters[j] : j \in 1..Len(UpperLetters)} |->
        LowerLetters[CHOOSE j \in 1..Len(UpperLetters) : UpperLetters[j] = c]]

StrLower(s) ==
    [k \in 1..Len(s) |-> IF s[k] \in DOMAIN LowerOf THEN LowerOf[s[k]]
                                                    ELSE s[k]]

\* s in t, for strings: the scan from offset k on.
RECURSIVE FindFrom(_, _, _)
FindFrom(s, t, k) ==
    IF k + Len(s) > Len(t) THEN FALSE
    ELSE IF SubSeq(t, k + 1, k + Len(s)) = s THEN TRUE
    ELSE FindFrom(s, t, k + 1)

StrIn(s, t) == FindFrom(s, t, 0)

\* The first operand of the condition alone.
SearchMatchesArabicOnly(search_term, entry) ==
    StrIn(StrLower(search_term), StrLower(entry.arabic))

\* The condition of the two comprehensions of lines 928 and 930.
SearchMatches(search_term, entry) ==
    \/ StrIn(StrLower(search_term), StrLower(entry.arabic))
    \/ StrIn(search_term, entry.urdu)

\* [x for x in entries if ...]: the matching entries in the list's order.
Found(search_term, entries) ==
    SelectSeq(entries, LAMBDA entry : SearchMatches(search_term, entry))

\* Lines 925-926: st.text_input hands the text of the box, the empty string
\* when nothing was typed; an empty string skips the whole search.
Main_SearchInput(p, term) ==
    /\ pc[p] = "main_925"
    /\ main' = [main EXCEPT ![p] = [main[p] EXCEPT
                                        !.search_term = PyStr(term)]]
    /\ pc' = [pc EXCEPT ![p] = IF term # <<>> THEN "main_928"
                                             ELSE "main_956"]
    /\ UNCHANGED <<ctx, frame, heap, held, obs, today, runs>>

\* Line 928.
Main_FoundHadiths(p) ==
    /\ pc[p] = "main_928"
    /\ main' = [main EXCEPT ![p] = [main[p] EXCEPT
                   !.found_hadiths = Found(main[p].search_term.chars, HADITHS)]]
    /\ pc' = [pc EXCEPT ![p] = "main_930"]
    /\ UNCHANGED <<ctx, frame, heap, held, obs, today, runs>>

\* Line 930.
Main_FoundVerses(p) ==
    /\ pc[p] = "main_930"
    /\ main' = [main EXCEPT ![p] = [main[p] EXCEPT
                   !.found_verses =
                       Found(main[p].search_term.chars, QURAN_VERSES)]]
    /\ pc' = [pc EXCEPT ![p] = "main_932"]
    /\ UNCHANGED <<ctx, frame, heap, held, obs, today, runs>>

\* Lines 933-950: the heading of the hadiths, a card for each hadith found,
\* the heading of the verses, a card for each verse found.
SearchResults(found_hadiths, found_verses) ==
    <<[kind |-> "heading_hadiths"]>>
    \o [k \in 1..Len(found_hadiths) |->
           [kind |-> "hadith", entry |-> found_hadiths[k]]]
    \o <<[kind |-> "heading_verses"]>>
    \o [k \in 1..Len(found_verses) |->
           [kind |-> "verse", entry |-> found_verses[k]]]

\* Lines 932-953: a list is true when it is not empty.
Main_SearchOutput(p) ==
    /\ pc[p] = "main_932"
    /\ main' = [main EXCEPT ![p] = [main[p] EXCEPT
                   !.search_shown =
                       IF main[p].found_hadiths # <<>>
                          \/ main[p].found_verses # <<>>
                       THEN SearchResults(main[p].found_hadiths,
                                          main[p].found_verses)
                       ELSE <<[kind |-> "warning"]>>]]
    /\ pc' = [pc EXCEPT ![p] = "main_956"]
    /\ UNCHANGED <<ctx, frame, heap, held, obs, today, runs>>

\* Lines 955-1010: the sections between the search tab and the gallery show
\* literals of the module.
Main_SectionsAfter(p) ==
    /\ pc[p] = "main_956"
    /\ pc' = [pc EXCEPT ![p] = "main_1011"]
    /\ UNCHANGED <<ctx, frame, main, heap, held, obs, today, runs>>

\* Lines 1011-1014, 1020-1023, 1030-1033, 1039-1042: the next image of the
\* gallery: st.image when its name is in islamic_images, st.info if not.
Main_GalleryImage(p) ==
    /\ pc[p] = "main_1011"
    /\ Len(main[p].gallery) < Len(GalleryNames)
    /\ LET name == GalleryNames[Len(main[p].gallery) + 1]
           imgs == main[p].islamic_images
       IN  main' = [main EXCEPT ![p] =
                      [@ EXCEPT !.gallery = Append(@,
                           IF DictHas(imgs, name)
                           THEN <<"image", name, DictGet(imgs, name, <<>>)>>
                           ELSE <<"info", name>>)]]
    /\ UNCHANGED <<pc, ctx, frame, heap, held, obs, today, runs>>

\* Render_End with islamic_images a name of the module: it outlives the
\* run.
Render_EndKeepingImages(p) ==
    /\ pc[p] = "main_1011"
    /\ Len(main[p].gallery) = Len(GalleryNames)
    /\ main' = [main EXCEPT ![p] =
                  [EmptyMain EXCEPT !.islamic_images = main[p].islamic_images]]
    /\ pc' = [pc EXCEPT ![p] = "idle"]
    /\ heap' = Collect(heap, held, frame, main')
    /\ UNCHANGED <<today, runs, ctx, frame, held, obs>>

\* The script run ends: the locals of main() go.
Render_End(p) ==
    /\ pc[p] = "main_1011"
    /\ Len(main[p].gallery) = Len(GalleryNames)
    /\ main' = [main EXCEPT ![p] = EmptyMain]
    /\ pc' = [pc EXCEPT ![p] = "idle"]
    /\ heap' = Collect(heap, held, frame, main')
    /\ UNCHANGED <<today, runs, ctx, frame, held, obs>>

(***************************************************************************)
(* The system clock                                                        *)
(***************************************************************************)
\* The session is followed for MaxDay days.
MaxDay == 1

\* Midnight passes: datetime.date.today() is the next day from now on.
Tick ==
    /\ today < MaxDay
    /\ today' = today + 1
    /\ UNCHANGED <<pc, ctx, frame, main, heap, held, obs, runs>>

(***************************************************************************)
(* Arguments the callers pass                                              *)
(***************************************************************************)
Given(x) == [given |-> TRUE, value |-> x]

Digits == <<"0", "1", "2", "3", "4", "5", "6", "7", "8", "9">>

Padded(n) == <<Digits[(n \div 10) + 1], Digits[(n % 10) + 1]>>

AM == <<"A", "M">>

PM == <<"P", "M">>

\* Every string HH:MM AM|PM with HH in 01..12 and MM in 00..59.
WellFormedTimes ==
    {Padded(h) \o <<":">> \o Padded(m) \o <<" ">> \o mer :
        h \in 1..12, m \in 0..59, mer \in {AM, PM}}

\* Strings off the pattern in one or several places: the hour, the
\* separator, the minute, the white space, the meridiem, the end.
HourParts ==
    {<<"0", "0">>, <<"0", "1">>, <<"1">>, <<"5">>, <<"0", "9">>,
     <<"1", "2">>, <<"1", "3">>, <<"0", "1", "2">>, <<>>, <<"u0663">>}

SeparatorParts == {<<":">>, <<".">>, <<>>}

MinuteParts ==
    {<<"0", "0">>, <<"0", "3">>, <<"5">>, <<"5", "9">>, <<"6", "0">>,
     <<"3", "u0663">>, <<"u0663">>, <<>>, <<"3", "0", "0">>}

SpaceParts == {<<>>, <<" ">>, <<" ", " ">>, <<"\t">>}

MeridiemParts ==
    {AM, PM, <<"a", "m">>, <<"p", "M">>, <<>>, <<"X", "M">>, <<"A">>,
     <<"P", "M", " ">>}

VariedTimes ==
    {h \o c \o m \o w \o a :
        h \in HourParts, c \in SeparatorParts, m \in MinuteParts,
        w \in SpaceParts, a \in MeridiemParts}

NotATime == <<"n", "o", "t", " ", "a", " ", "t", "i", "m", "e">>

UnpaddedHour == <<"5", ":", "1", "5", " ", "A", "M">>

LeadingSpace == <<" ", "1", "2", ":", "3", "0", " ", "P", "M">>

\* What a direct caller may pass to get_zawal_time.
TimeArgs ==
    {PyStr(s) : s \in WellFormedTimes \cup VariedTimes
                       \cup {NotATime, LeadingSpace, UnpaddedHour}}
      \cup {PyNone}

\* What a direct caller may pass to get_prayer_times: the keys, strings that
\* are no key (empty, other letter case, padded, another city), no argument.
CityArgs ==
    {Given(c) : c \in {"Karachi", "Lahore", "Islamabad", "Peshawar", "Quetta",
                       "", "karachi", "KARACHI", "lahore", "LAHORE",
                       "islamabad", "peshawar", "QUETTA", "quetta",
                       " Karachi", "Lahore ", "Multan"}}
      \cup {NoArgument}

\* The offsets a caller may try to pass as a second argument.
OffsetArgs == {0, 5, -5}

\* The times tried together with an offset.
OffsetTimeArgs ==
    {PyStr(Padded(h) \o <<":">> \o Padded(m) \o <<" ">> \o mer) :
        h \in {1, 11, 12}, m \in {0, 3, 30, 59}, mer \in {AM, PM}}

(***************************************************************************)
(* Spec: one caller, every argument, script runs of the page, the clock    *)
(***************************************************************************)
\* What the visitor types into the search box: nothing; the Arabic
\* spelling of Allah, met in the Arabic text of one hadith only; the Urdu
\* word for ease, met in the Urdu text of one verse only; the Urdu spelling
\* of Allah, met in the Urdu text of a hadith and of four verses; a single
\* space, met in every text; a word in Latin capitals and small letters,
\* met nowhere.
SearchTerms ==
    {<<>>,
     <<"u0627", "u0644", "u0644", "u0647">>,
     <<"u0622", "u0633", "u0627", "u0646", "u06CC">>,
     <<"u0627", "u0644", "u0644", "u06C1">>,
     <<" ">>,
     <<"Q", "u", "r", "a", "n">>}

\* The two ways through the search tab: nothing typed, and a term.
FewSearchTerms == {<<>>, <<"Q", "u", "r", "a", "n">>}

InitFor(callers) ==
    /\ pc = [p \in callers |-> "idle"]
    /\ ctx = [p \in callers |-> "none"]
    /\ frame = [p \in callers |-> EmptyFrame]
    /\ main = [p \in callers |-> EmptyMain]
    /\ heap = [a \in {} |-> PrayerTimesData]
    /\ held = [p \in callers |-> NoRef]
    /\ obs = [p \in callers |-> NoObs]
    /\ today = 0
    /\ runs = 0

MainCallers == {1}

\* A direct call with any of the arguments above.
DirectGetPrayerTimes(p) ==
    pc[p] = "idle" /\ \E a \in CityArgs : CallGetPrayerTimes(p, a)

DirectGetZawalTime(p) ==
    pc[p] = "idle" /\ \E v \in TimeArgs : CallGetZawalTime(p, v)

DirectGetZawalTimeWithOffset(p) ==
    pc[p] = "idle" /\ \E v \in OffsetTimeArgs : \E off \in OffsetArgs :
        CallGetZawalTimeWithOffset(p, v, off)

Init == InitFor(MainCallers)

Next ==
    \/ \E p \in MainCallers :
        \/ DirectGetPrayerTimes(p)
        \/ GPT_Build(p)
        \/ GPT_Return(p)
        \/ DirectGetZawalTime(p)
        \/ DirectGetZawalTimeWithOffset(p)
        \/ GZ_Parse(p)
        \/ GZ_Subtract(p)
        \/ GZ_Format(p)
        \/ GZ_Except(p)
        \/ Consume(p)
        \/ Main_Start(p)
        \/ Main_LoadImages(p)
        \/ \E exists \in BOOLEAN : LI_CheckFolder(p, exists)
        \/ \E outcome \in FileOutcomes : LI_File(p, outcome)
        \/ LI_Return(p)
        \/ \E i \in 1..Len(SelectOptions) : Main_Select(p, SelectOptions[i])
        \/ Main_Gregorian(p)
        \/ Main_Hijri(p)
        \/ Main_Month(p)
        \/ Render_Start(p)
        \/ Render_Columns(p)
        \/ Render_Cell(p)
        \/ Render_Dhuhr(p)
        \/ Render_CallZawal(p)
        \/ Render_Zawal(p)
        \/ Main_Sections(p)
        \/ \E term \in FewSearchTerms : Main_SearchInput(p, term)
        \/ Main_FoundHadiths(p)
        \/ Main_FoundVerses(p)
        \/ Main_SearchOutput(p)
        \/ Main_SectionsAfter(p)
        \/ Main_GalleryImage(p)
        \/ Render_End(p)
    \/ Tick

Spec == Init /\ [][Next]_vars

(***************************************************************************)
(* SpecConc: several callers at once, their steps interleaved, and callers *)
(* that keep and change the dicts they received                            *)
(***************************************************************************)
NumCallers == 2

\* No argument takes the lookup's first branch (the key Karachi is found),
\* "quetta" its second (no such key).
ConcCityArgs == {NoArgument, Given("quetta")}

ConcTimeArgs ==
    {PyStr(<<"1", "2", ":", "0", "3", " ", "A", "M">>), PyStr(NotATime)}

Mutations == {<<"del", "dhuhr">>}

ConcCallers == 1..NumCallers

InitConc == InitFor(ConcCallers)

NextConc ==
    \E p \in ConcCallers :
        \/ \E a \in ConcCityArgs : CallGetPrayerTimes(p, a)
        \/ GPT_Build(p)
        \/ GPT_Return(p)
        \/ \E v \in ConcTimeArgs : CallGetZawalTime(p, v)
        \/ GZ_Parse(p)
        \/ GZ_Subtract(p)
        \/ GZ_Format(p)
        \/ GZ_Except(p)
        \/ Consume(p)
        \/ Keep(p)
        \/ \E m \in Mutations : CallerMutates(p, m[1], m[2])
        \/ CallerDrops(p)

SpecConc == InitConc /\ [][NextConc]_vars

(***************************************************************************)
(* SpecPair: two callers over several days, with more arguments and more   *)
(* changes to the dicts they received                                      *)
(***************************************************************************)
PairCallers == {1, 2}

\* A key, a string that is no key.
PairCityArgs == {Given("Lahore"), Given("lahore")}

\* "11:50 AM" and a string that is no time.
PairTimeArgs ==
    {PyStr(<<"1", "1", ":", "5", "0", " ", "A", "M">>), PyStr(NotATime)}

PairMutations == {<<"del", "dhuhr">>, <<"set", "fajr">>}

InitPair == InitFor(PairCallers)

NextPair ==
    \/ \E p \in PairCallers :
        \/ \E a \in PairCityArgs : CallGetPrayerTimes(p, a)
        \/ GPT_Build(p)
        \/ GPT_Return(p)
        \/ \E v \in PairTimeArgs : CallGetZawalTime(p, v)
        \/ GZ_Parse(p)
        \/ GZ_Subtract(p)
        \/ GZ_Format(p)
        \/ GZ_Except(p)
        \/ Consume(p)
        \/ Keep(p)
        \/ \E m \in PairMutations : CallerMutates(p, m[1], m[2])
        \/ CallerDrops(p)
    \/ Tick

SpecPair == InitPair /\ [][NextPair]_vars

(***************************************************************************)
(* SpecIter: one caller that passes each result of get_zawal_time on to    *)
(* the next call                                                           *)
(***************************************************************************)
\* The arguments of the first call: every well-formed time of the hours
\* 12 AM and 12 PM (every minute of the hour, both halves of the day) and a
\* string that is no time.
IterStarts ==
    {PyStr(Padded(12) \o <<":">> \o Padded(m) \o <<" ">> \o mer) :
        m \in 0..59, mer \in {AM, PM}}
      \cup {PyStr(NotATime)}

FirstGetZawalTime(p) ==
    pc[p] = "idle" /\ \E v \in IterStarts : CallGetZawalTime(p, v)

NextIter ==
    \E p \in MainCallers :
        \/ FirstGetZawalTime(p)
        \/ CallGetZawalTimeAgain(p)
        \/ GZ_Parse(p)
        \/ GZ_Subtract(p)
        \/ GZ_Format(p)
        \/ GZ_Except(p)
        \/ Consume(p)

SpecIter == Init /\ [][NextIter]_vars

(***************************************************************************)
(* SpecSearch: the script runs of one session and nothing else: every      *)
(* answer of the file system, every city, every search term                *)
(***************************************************************************)
NextSearch ==
    \E p \in MainCallers :
        \/ Main_Start(p)
        \/ Main_LoadImages(p)
        \/ \E exists \in BOOLEAN : LI_CheckFolder(p, exists)
        \/ \E outcome \in FileOutcomes : LI_File(p, outcome)
        \/ LI_Return(p)
        \/ \E i \in 1..Len(SelectOptions) : Main_Select(p, SelectOptions[i])
        \/ Main_Gregorian(p)
        \/ Main_Hijri(p)
        \/ Main_Month(p)
        \/ Render_Start(p)
        \/ GPT_Build(p)
        \/ GPT_Return(p)
        \/ Render_Columns(p)
        \/ Render_Cell(p)
        \/ Render_Dhuhr(p)
        \/ Render_CallZawal(p)
        \/ GZ_Parse(p)
        \/ GZ_Subtract(p)
        \/ GZ_Format(p)
        \/ Render_Zawal(p)
        \/ Main_Sections(p)
        \/ \E term \in SearchTerms : Main_SearchInput(p, term)
        \/ Main_FoundHadiths(p)
        \/ Main_FoundVerses(p)
        \/ Main_SearchOutput(p)
        \/ Main_SectionsAfter(p)
        \/ Main_GalleryImage(p)
        \/ Render_End(p)

SpecSearch == Init /\ [][NextSearch]_vars

(***************************************************************************)
(* Vocabulary of the properties                                            *)
(***************************************************************************)
\* The five city identifiers.
CityNames == {"Karachi", "Lahore", "Islamabad", "Peshawar", "Quetta"}

\* The six prayer names, in order.
PrayerNames == <<"fajr", "sunrise", "dhuhr", "asr", "maghrib", "isha">>

DecimalOf(c) == CHOOSE n \in 0..9 : Digits[n + 1] = c

\* s has the form HH:MM AM|PM, HH in 01..12 and MM in 00..59, zero-padded.
IsClockString(s) ==
    /\ Len(s) = 8
    /\ s[1] \in AsciiDigits /\ s[2] \in AsciiDigits
    /\ s[3] = ":"
    /\ s[4] \in AsciiDigits /\ s[5] \in AsciiDigits
    /\ s[6] = " "
    /\ s[7] \in {"A", "P"} /\ s[8] = "M"
    /\ 10 * DecimalOf(s[1]) + DecimalOf(s[2]) \in 1..12
    /\ 10 * DecimalOf(s[4]) + DecimalOf(s[5]) \in 0..59

\* The minute of the day, 0..1439, a clock string names.
MinuteOfDay(s) ==
    LET h == 10 * DecimalOf(s[1]) + DecimalOf(s[2])
        m == 10 * DecimalOf(s[4]) + DecimalOf(s[5])
    IN  ((h % 12) + (IF s[7] = "P" THEN 12 ELSE 0)) * 60 + m

Clock(a, b, c, d, mer) == <<a, b, ":", c, d, " ", mer, "M">>

\* Caller p has a completed direct call of fn before it.
Returned(p, fn) == pc[p] = "returned" /\ obs[p].done /\ obs[p].fn = fn

\* A completed call get_zawal_time(t) with the one argument.
ReturnedZawal(p) == Returned(p, "get_zawal_time") /\ ~obs[p].offset.given

\* ... whose argument is a well-formed time string.
ReturnedZawalOfClock(p) ==
    /\ ReturnedZawal(p)
    /\ obs[p].time.type = "str"
    /\ IsClockString(obs[p].time.chars)

(***************************************************************************)
(* C1                                                                      *)
(***************************************************************************)
\* C1: for every city identifier that is a key of the catalog,
\* get_prayer_times(city) returns exactly that city's prayer-time set: the
\* six name/time pairs of that city, and so the set of no other city.
C1_IdentityLookup ==
    \A p \in DOMAIN pc :
        (/\ Returned(p, "get_prayer_times")
         /\ obs[p].city.given
         /\ obs[p].city.value \in CityNames)
        => /\ obs[p].exc = ""
           /\ obs[p].dict = PrayerTimesData[obs[p].city.value]
           /\ Len(obs[p].dict) = 6
           /\ \A c \in CityNames \ {obs[p].city.value} :
                 obs[p].dict # PrayerTimesData[c]

C1_Witness ==
    /\ Returned(1, "get_prayer_times")
    /\ obs[1].city = Given("Lahore")
    /\ DictGet(obs[1].dict, "dhuhr", <<>>) = Clock("1", "2", "1", "5", "P")
    /\ DictGet(obs[1].dict, "isha", <<>>) = Clock("0", "8", "0", "0", "P")

(***************************************************************************)
(* C2                                                                      *)
(***************************************************************************)
\* C2: for every string that is not exactly a catalog key (the empty string,
\* a key in another letter case, ...) get_prayer_times returns the Karachi
\* set and raises no error; called with no argument it returns the Karachi
\* set too.
C2_DefaultLookup ==
    \A p \in DOMAIN pc :
        (/\ Returned(p, "get_prayer_times")
         /\ (~obs[p].city.given \/ obs[p].city.value \notin CityNames))
        => /\ obs[p].exc = ""
           /\ obs[p].dict = PrayerTimesData["Karachi"]
           /\ DictGet(obs[p].dict, "fajr", <<>>) = Clock("0", "5", "1", "5", "A")

C2_Witness ==
    /\ Returned(1, "get_prayer_times")
    /\ obs[1].city = Given("LAHORE")
    /\ obs[1].exc = ""
    /\ DictGet(obs[1].dict, "dhuhr", <<>>) = Clock("1", "2", "3", "0", "P")

(***************************************************************************)
(* C3                                                                      *)
(***************************************************************************)
\* C3: for every well-formed 12-hour time string t, get_zawal_time(t) is the
\* time of day 5 minutes before t modulo 24 hours: "12:30 PM" gives
\* "12:25 PM", the meridiem flips across 12 o'clock ("12:03 PM" gives
\* "11:58 AM") and the hour goes from 01 to 12 ("01:02 AM" gives "12:57 AM").
C3_FiveMinutesBefore ==
    \A p \in DOMAIN pc :
        ReturnedZawalOfClock(p)
        => LET t == obs[p].time.chars
               r == obs[p].str
           IN  /\ obs[p].exc = ""
               /\ IsClockString(r)
               /\ MinuteOfDay(r) = (MinuteOfDay(t) + 1440 - 5) % 1440
               /\ t = Clock("1", "2", "3", "0", "P")
                    => r = Clock("1", "2", "2", "5", "P")
               /\ t = Clock("1", "2", "0", "3", "P")
                    => r = Clock("1", "1", "5", "8", "A")
               /\ t = Clock("0", "1", "0", "2", "A")
                    => r = Clock("1", "2", "5", "7", "A")

C3_Witness ==
    /\ ReturnedZawalOfClock(1)
    /\ obs[1].time.chars = Clock("1", "2", "0", "3", "P")
    /\ obs[1].str = Clock("1", "1", "5", "8", "A")

(***************************************************************************)
(* C4                                                                      *)
(***************************************************************************)
\* The inputs of the first five minutes after midnight, 12:00 AM .. 12:04 AM.
AfterMidnight(s) ==
    IsClockString(s) /\ MinuteOfDay(s) \in 0..4

\* C4: for the inputs "12:00 AM" .. "12:04 AM" get_zawal_time wraps around
\* to the end of the day instead of failing or returning the fallback:
\* "12:00 AM" gives "11:55 PM", "12:03 AM" gives "11:58 PM", and the result
\* has no date component although the subtraction left the date.
C4_MidnightWraparound ==
    \A p \in DOMAIN pc :
        /\ (ReturnedZawalOfClock(p) /\ AfterMidnight(obs[p].time.chars))
           => LET t == obs[p].time.chars
                  r == obs[p].str
              IN  /\ obs[p].exc = ""
                  /\ r # FallbackTime
                  /\ r = <<"1", "1", ":", "5", Digits[DecimalOf(t[5]) + 6],
                           " ", "P", "M">>
                  /\ t = Clock("1", "2", "0", "0", "A")
                       => r = Clock("1", "1", "5", "5", "P")
                  /\ t = Clock("1", "2", "0", "3", "A")
                       => r = Clock("1", "1", "5", "8", "P")
        /\ (/\ pc[p] \in {"gz_81", "gz_83", "gz_84", "gz_87"}
            /\ frame[FrameOf(p)].dhuhr_time.type = "str"
            /\ AfterMidnight(frame[FrameOf(p)].dhuhr_time.chars))
           => /\ pc[p] # "gz_87"
              /\ pc[p] = "gz_84" => frame[FrameOf(p)].zawal_dt.day = -1

C4_Witness ==
    /\ ReturnedZawalOfClock(1)
    /\ obs[1].time.chars = Clock("1", "2", "0", "0", "A")
    /\ obs[1].str = Clock("1", "1", "5", "5", "P")

(***************************************************************************)
(* C5                                                                      *)
(***************************************************************************)
\* s matches what strptime accepts for "%I:%M %p": an hour 1..12 with or
\* without a leading zero, a colon, a minute 0..59 with or without a leading
\* zero (decimal digits in the Unicode sense), one or more white-space
\* characters, AM or PM in any letter case, and nothing else.
IsLenientClockString(s) ==
    \E hl \in {1, 2}, ml \in {1, 2}, wl \in 1..Len(s) :
        /\ Len(s) = hl + 1 + ml + wl + 2
        /\ \A i \in 1..hl : s[i] \in AsciiDigits
        /\ (IF hl = 1 THEN DecimalOf(s[1])
            ELSE 10 * DecimalOf(s[1]) + DecimalOf(s[2])) \in 1..12
        /\ hl = 2 => s[1] \in {"0", "1"}
        /\ s[hl + 1] = ":"
        /\ ml = 2 => s[hl + 2] \in {"0", "1", "2", "3", "4", "5"}
        /\ s[hl + 1 + ml] \in RegexDigit
        /\ \A i \in 1..wl : s[hl + 1 + ml + i] \in RegexSpace
        /\ s[Len(s) - 1] \in {"A", "a", "P", "p"}
        /\ s[Len(s)] \in {"M", "m"}

\* C5 as stated: for every input that does not match the pattern of a
\* two-digit hour 01..12, a colon, a two-digit minute 00..59, one space and
\* AM or PM (such as "5:15 AM"), get_zawal_time does not raise and returns
\* exactly "11:45 AM".
C5_AsStated ==
    \A p \in DOMAIN pc :
        (/\ ReturnedZawal(p)
         /\ ~(obs[p].time.type = "str" /\ IsClockString(obs[p].time.chars)))
        => obs[p].exc = "" /\ obs[p].str = FallbackTime

\* C5, amended: for every input that is not a string, or that does not match
\* the pattern strptime accepts (hour 1..12 and minute 0..59 with or without
\* leading zero, one or more white-space characters, AM or PM in any letter
\* case), get_zawal_time does not raise and returns exactly "11:45 AM".
C5_FallbackOnMismatch ==
    \A p \in DOMAIN pc :
        (/\ ReturnedZawal(p)
         /\ ~(obs[p].time.type = "str"
              /\ IsLenientClockString(obs[p].time.chars)))
        => obs[p].exc = "" /\ obs[p].str = FallbackTime

C5_Witness ==
    /\ ReturnedZawal(1)
    /\ obs[1].time = PyStr(NotATime)
    /\ obs[1].exc = ""
    /\ obs[1].str = FallbackTime

(***************************************************************************)
(* C6                                                                      *)
(***************************************************************************)
\* C6 as stated: the derivation takes the offset as a signed integer
\* parameter, and with offset 0 it returns its input unchanged, for every
\* well-formed time string.
C6_AsStated ==
    \A p \in DOMAIN pc :
        (/\ Returned(p, "get_zawal_time")
         /\ obs[p].offset = [given |-> TRUE, value |-> 0]
         /\ IsClockString(obs[p].time.chars))
        => obs[p].exc = "" /\ obs[p].str = obs[p].time.chars

\* C6, amended: get_zawal_time has no offset parameter (a call that passes
\* one raises TypeError and returns nothing); the offset is the constant 5,
\* so the function never returns a well-formed input unchanged.  The format
\* round trip alone is preserved: for every well-formed t, formatting the
\* parsed time less 0 minutes gives t again.
C6_RoundTripNoParameter ==
    \A p \in DOMAIN pc :
        /\ (Returned(p, "get_zawal_time") /\ obs[p].offset.given)
           => obs[p].exc = "TypeError" /\ obs[p].str = <<>>
        /\ ReturnedZawalOfClock(p)
           => /\ obs[p].str # obs[p].time.chars
              /\ MinuteOfDay(obs[p].str) # MinuteOfDay(obs[p].time.chars)
        /\ (/\ pc[p] = "gz_83"
            /\ frame[FrameOf(p)].dhuhr_time.type = "str"
            /\ IsClockString(frame[FrameOf(p)].dhuhr_time.chars))
           => Strftime(DatetimeMinusMinutes(frame[FrameOf(p)].dhuhr_dt, 0))
                = frame[FrameOf(p)].dhuhr_time.chars

C6_Witness ==
    /\ pc[1] = "gz_83"
    /\ ctx[1] = "direct"
    /\ frame[FrameOf(1)].dhuhr_time = PyStr(Clock("0", "1", "0", "2", "P"))
    /\ frame[FrameOf(1)].dhuhr_dt = [day |-> 0, hour |-> 13, minute |-> 2]

(***************************************************************************)
(* C7                                                                      *)
(***************************************************************************)
\* C7: the catalog has exactly five city entries and every city's set has
\* exactly six entries with the same six keys in the same order; so the
\* render loop, which puts entry i in column i of exactly six columns, never
\* indexes a column that does not exist, for any selectable city.
C7_CatalogShape ==
    /\ \A a \in DOMAIN heap :
          /\ DOMAIN heap[a] = CityNames
          /\ Cardinality(DOMAIN heap[a]) = 5
          /\ \A c \in DOMAIN heap[a] :
                Len(heap[a][c]) = 6 /\ DictKeys(heap[a][c]) = PrayerNames
    /\ \A p \in DOMAIN pc :
          /\ Returned(p, "get_prayer_times")
             => DictKeys(obs[p].dict) = PrayerNames
          /\ pc[p] # "main_error" /\ main[p].error = ""
          /\ pc[p] \in {"main_642", "main_649", "main_651"}
             => /\ main[p].cols = 6
                /\ Len(main[p].prayers) = 6
                /\ main[p].i <= main[p].cols
                /\ \A k \in 1..Len(main[p].shown) :
                      /\ main[p].shown[k][1] = k - 1
                      /\ main[p].shown[k][1] < main[p].cols
                      /\ main[p].shown[k][2] = PrayerNames[k]
          /\ pc[p] \in {"main_649", "main_651"} => Len(main[p].shown) = 6

C7_Witness ==
    /\ pc[1] = "main_649"
    /\ main[1].selected_city = "Quetta"
    /\ Len(main[1].shown) = 6
    /\ main[1].shown[6] = <<5, "isha", Clock("0", "8", "3", "0", "P")>>

(***************************************************************************)
(* C8                                                                      *)
(***************************************************************************)
\* C8: for every input whatsoever the value get_zawal_time returns has the
\* form HH:MM AM|PM with a zero-padded hour 01..12 and a zero-padded minute
\* 00..59; so has every time value stored in the catalog.
C8_ClockStringsOnly ==
    /\ \A p \in DOMAIN pc :
          /\ ReturnedZawal(p)
             => obs[p].exc = "" /\ IsClockString(obs[p].str)
          /\ pc[p] = "main_649" => IsClockString(main[p].zawal_time)
          /\ Returned(p, "get_prayer_times")
             => \A k \in 1..Len(obs[p].dict) : IsClockString(obs[p].dict[k][2])
    /\ \A a \in DOMAIN heap : \A c \in DOMAIN heap[a] :
          \A k \in 1..Len(heap[a][c]) : IsClockString(heap[a][c][k][2])

C8_Witness ==
    /\ ReturnedZawal(1)
    /\ obs[1].time = PyStr(UnpaddedHour)
    /\ obs[1].str = Clock("0", "5", "1", "0", "A")

(***************************************************************************)
(* C9                                                                      *)
(***************************************************************************)
FunctionPcs == {"gpt_31", "gpt_74", "gz_81", "gz_83", "gz_84", "gz_87"}

\* The value get_zawal_time(v) has when nothing else runs: lines 81-87 in
\* sequence.
ZawalAlone(v) ==
    LET r == Strptime(v)
    IN  IF r.ok
        THEN Strftime(DatetimeMinusMinutes(r.dt, ZawalOffsetMinutes))
        ELSE FallbackTime

\* The value get_prayer_times(a) has when nothing else runs.
PrayerTimesAlone(a) ==
    LET city == IF a.given THEN a.value ELSE "Karachi"
    IN  PrayerTimesData[IF city \in CityNames THEN city ELSE "Karachi"]

\* This step is a step of caller p in get_prayer_times or get_zawal_time
\* (the call that binds the argument included).
FunctionStep(p) ==
    /\ pc'[p] # pc[p]
    /\ \/ pc[p] \in FunctionPcs
       \/ pc[p] = "idle" /\ pc'[p] \in FunctionPcs

\* What such a step leaves alone: everything of the other callers, every
\* object that existed before and every dict some caller holds; an object it
\* creates holds the literal, and what it returns is the value the argument
\* alone determines, whatever was called, kept or changed before.
NoSideEffect(p) ==
    /\ \A q \in DOMAIN pc \ {p} :
          /\ pc'[q] = pc[q] /\ ctx'[q] = ctx[q] /\ frame'[q] = frame[q]
          /\ main'[q] = main[q] /\ held'[q] = held[q] /\ obs'[q] = obs[q]
    /\ main'[p] = main[p]
    /\ \A a \in DOMAIN heap \cap DOMAIN heap' : heap'[a] = heap[a]
    /\ \A a \in DOMAIN heap' \ DOMAIN heap : heap'[a] = PrayerTimesData
    /\ \A q \in DOMAIN pc \ {p} :
          held[q] # NoRef
          => /\ held[q].addr \in DOMAIN heap'
             /\ Deref(heap', held[q]) = Deref(heap, held[q])
    /\ (held[p] # NoRef /\ held'[p] = held[p])
          => /\ held[p].addr \in DOMAIN heap'
             /\ Deref(heap', held[p]) = Deref(heap, held[p])
    /\ (pc'[p] = "returned" /\ obs[p].fn = "get_prayer_times")
          => /\ obs'[p].exc = ""
             /\ obs'[p].dict = PrayerTimesAlone(obs[p].city)
             /\ held'[p].addr \notin {held[q].addr : q \in DOMAIN pc}
    /\ (pc'[p] = "returned" /\ obs[p].fn = "get_zawal_time")
          => obs'[p].exc = "" /\ obs'[p].str = ZawalAlone(obs[p].time)

\* C9: get_prayer_times and get_zawal_time have no side effects: a call, on
\* the success path or on the fallback path, leaves the catalog contents and
\* every other piece of program state unchanged, so the result of a later
\* call does not depend on the calls made before it.
C9_NoSideEffects ==
    [][\A p \in DOMAIN pc : FunctionStep(p) => NoSideEffect(p)]_vars

\* A caller holds a dict it changed, and a call that returned after it got
\* the literal set.
C9_Witness ==
    /\ held[2] # NoRef
    /\ ~DictHas(Deref(heap, held[2]), "dhuhr")
    /\ Returned(1, "get_prayer_times")
    /\ obs[1].city = Given("quetta")
    /\ DictGet(obs[1].dict, "dhuhr", <<>>) = Clock("1", "2", "3", "0", "P")
    /\ held[1].addr # held[2].addr

(***************************************************************************)
(* C10                                                                     *)
(***************************************************************************)
\* C10: when several callers invoke get_prayer_times and get_zawal_time
\* concurrently, under every interleaving of their steps each caller
\* receives the result it would receive if it ran alone.
C10_SameAsAlone ==
    \A p \in DOMAIN pc :
        /\ Returned(p, "get_zawal_time")
           => obs[p].exc = "" /\ obs[p].str = ZawalAlone(obs[p].time)
        /\ Returned(p, "get_prayer_times")
           => obs[p].exc = "" /\ obs[p].dict = PrayerTimesAlone(obs[p].city)

\* Two invocations in progress at once: caller 1 past the subtraction in
\* get_zawal_time("12:03 AM"), caller 2 before the lookup in
\* get_prayer_times("quetta").
C10_Witness ==
    /\ pc[1] = "gz_84"
    /\ frame[FrameOf(1)].zawal_dt = [day |-> -1, hour |-> 23, minute |-> 58]
    /\ pc[2] = "gpt_74"
    /\ frame[FrameOf(2)].city = "quetta"

(***************************************************************************)
(* C11                                                                     *)
(***************************************************************************)
\* Two completed calls of the same function with the same argument.
SameCall(p, q) ==
    /\ obs[p].done /\ obs[q].done
    /\ pc[p] = "returned" /\ pc[q] = "returned"
    /\ obs[p].fn = obs[q].fn
    /\ obs[p].city = obs[q].city
    /\ obs[p].time = obs[q].time
    /\ obs[p].offset = obs[q].offset

\* A dict caller p received earlier, still holds and has changed.
HoldsChanged(p) ==
    /\ held[p] # NoRef
    /\ Deref(heap, held[p]) # PrayerTimesData[held[p].city]

\* C11: both functions are deterministic: two executions given the same
\* city identifier (respectively the same time string) return equal
\* results, whatever the date of either call, whatever was called before
\* and whatever the callers did to the dicts they had received.
C11_Deterministic ==
    \A p \in DOMAIN pc : \A q \in DOMAIN pc :
        SameCall(p, q)
        => /\ obs[p].exc = obs[q].exc
           /\ obs[p].str = obs[q].str
           /\ obs[p].dict = obs[q].dict

\* get_zawal_time("11:50 AM") called on the first day by a caller that had
\* looked up a set before and changed it, and on the next day by a caller
\* that holds nothing: both returned "11:45 AM".
C11_Witness ==
    /\ SameCall(1, 2)
    /\ obs[1].fn = "get_zawal_time"
    /\ obs[1].time = PyStr(Clock("1", "1", "5", "0", "A"))
    /\ obs[1].date = 0 /\ obs[2].date = 1
    /\ HoldsChanged(1) /\ held[2] = NoRef
    /\ obs[1].str = Clock("1", "1", "4", "5", "A")
    /\ obs[2].str = Clock("1", "1", "4", "5", "A")

(***************************************************************************)
(* C15                                                                     *)
(***************************************************************************)
\* The six literal times of city c, as written in lines 31-72.
LiteralTimes(c) == PrayerTimesData[c]

\* C15: the catalog data is read-only for the whole session: after any
\* sequence of lookups, including a caller modifying or deleting entries of
\* a prayer-time set it received, every later get_prayer_times(c) still
\* returns the original literal six times for city c: the catalog a lookup
\* reads holds the literal, the set returned is the literal set, and the
\* only sets that differ from the literal are those a caller holds.
C15_CatalogReadOnly ==
    /\ \A p \in DOMAIN pc :
          /\ pc[p] = "gpt_74"
             => \A c \in CityNames :
                   heap[frame[FrameOf(p)].prayer_times_data][c]
                      = LiteralTimes(c)
          /\ Returned(p, "get_prayer_times")
             => /\ obs[p].exc = ""
                /\ \A c \in CityNames :
                      obs[p].city = Given(c) => obs[p].dict = LiteralTimes(c)
                /\ Len(obs[p].dict) = 6
    /\ \A a \in DOMAIN heap : \A c \in DOMAIN heap[a] :
          heap[a][c] # LiteralTimes(c)
          => \E q \in DOMAIN pc : held[q] = [addr |-> a, city |-> c]

\* Caller 1 looked up Lahore, deleted dhuhr from the set it received and
\* overwrote fajr, and is now in a later get_prayer_times("Lahore") whose
\* catalog has the six literal times; caller 2 has received the literal set
\* of Lahore on the next day.
C15_Witness ==
    /\ held[1] # NoRef /\ held[1].city = "Lahore"
    /\ ~DictHas(Deref(heap, held[1]), "dhuhr")
    /\ DictGet(Deref(heap, held[1]), "fajr", <<>>) = ForeignTime
    /\ pc[1] = "gpt_74"
    /\ frame[FrameOf(1)].city = "Lahore"
    /\ frame[FrameOf(1)].prayer_times_data # held[1].addr
    /\ heap[frame[FrameOf(1)].prayer_times_data]["Lahore"]
          = LiteralTimes("Lahore")
    /\ Returned(2, "get_prayer_times")
    /\ obs[2].city = Given("Lahore") /\ obs[2].date = 1
    /\ DictGet(obs[2].dict, "dhuhr", <<>>) = Clock("1", "2", "1", "5", "P")

(***************************************************************************)
(* C16                                                                     *)
(***************************************************************************)
\* C16: the return value of get_zawal_time alone does not tell a caller
\* whether parsing failed: a call that returns from the except clause
\* (line 87) and the call with the well-formed input "11:50 AM", which
\* returns from line 84, both return "11:45 AM", and a call reports nothing
\* but that string: no exception, no flag.
C16_FallbackIndistinguishable ==
    \A p \in DOMAIN pc :
        ReturnedZawal(p)
        => /\ obs[p].exc = ""
           /\ obs[p].via \in {"gz_84", "gz_87"}
           /\ IsClockString(obs[p].str)
           /\ obs[p].via = "gz_87"
              => obs[p].str = Clock("1", "1", "4", "5", "A")
           /\ obs[p].time = PyStr(Clock("1", "1", "5", "0", "A"))
              => /\ obs[p].via = "gz_84"
                 /\ obs[p].str = Clock("1", "1", "4", "5", "A")

\* Caller 1 got "11:45 AM" from the except clause for "not a time", caller
\* 2 got "11:45 AM" from the success path for "11:50 AM".
C16_Witness ==
    /\ ReturnedZawal(1) /\ ReturnedZawal(2)
    /\ obs[1].time = PyStr(NotATime) /\ obs[1].via = "gz_87"
    /\ obs[2].time = PyStr(Clock("1", "1", "5", "0", "A"))
    /\ obs[2].via = "gz_84"
    /\ obs[1].str = obs[2].str

(***************************************************************************)
(* C12                                                                     *)
(***************************************************************************)
\* Caller p is in a script run and load_islamic_images() has returned.
ImagesLoaded(p) ==
    main[p].run > 0 /\ pc[p] \notin {"main_450", "li_95", "li_109"}

\* What the file system answered for file k of image_files in this run; no
\* answer when the folder was missing.
AnswerFor(p, k) ==
    IF main[p].answers[1] = "folder" THEN main[p].answers[k + 1]
    ELSE "no folder"

EntryOf(d, k) == d[CHOOSE i \in 1..Len(d) : d[i][1] = k][2]

\* The four operations of the prayer-time section for city c, in order.
ExpectedTrace(c) ==
    <<<<"selectbox", c>>, <<"get_prayer_times", c>>,
      <<"get", "dhuhr", EntryOf(PrayerTimesData[c], "dhuhr")>>,
      <<"get_zawal_time", EntryOf(PrayerTimesData[c], "dhuhr")>>>>

\* How many of the four operations a run at pc has performed.
OperationsDoneAt(at) ==
    CASE at \in {"main_450", "li_95", "li_109", "main_576"} -> 0
      [] at \in {"main_621", "main_625", "main_629", "main_636"} -> 1
      [] at \in {"gpt_31", "gpt_74", "main_639", "main_642"} -> 2
      [] at = "main_648" -> 3
      [] OTHER -> 4

\* C13: in every page render the operations occur in this order and exactly
\* once each: the city is read from the selection control, get_prayer_times
\* is called with it, the dhuhr entry is extracted from the returned set,
\* and get_zawal_time is called with exactly that entry; the zawal time
\* displayed is derived from the dhuhr time of the same city whose six
\* times are displayed.
C13_RenderOrder ==
    \A p \in DOMAIN pc :
        main[p].run > 0
        => LET m  == main[p]
               tr == m.trace
           IN  /\ Len(tr) = OperationsDoneAt(pc[p])
               /\ Len(tr) > 0
                  => /\ m.selected_city = tr[1][2]
                     /\ tr = SubSeq(ExpectedTrace(m.selected_city), 1, Len(tr))
               /\ pc[p] \in {"gpt_31", "gpt_74"}
                  => frame[FrameOf(p)].city = m.selected_city
               /\ pc[p] \in {"gz_81", "gz_83", "gz_84", "gz_87"}
                  => frame[FrameOf(p)].dhuhr_time = PyStr(
                        EntryOf(Deref(heap, m.prayer_times), "dhuhr"))
               /\ \A k \in 1..Len(m.shown) :
                     m.shown[k][3] = PrayerTimesData[m.selected_city][k][2]
               /\ pc[p] \in {"main_651", "main_1011"}
                  => /\ Len(m.shown) = 6
                     /\ IsClockString(m.zawal_shown)
                     /\ MinuteOfDay(m.zawal_shown) =
                           MinuteOfDay(m.shown[3][3]) - 5

\* A render for Peshawar that has shown its zawal time: the four
\* operations, each once, and 12:15 PM shown next to dhuhr 12:20 PM.
C13_Witness ==
    /\ pc[1] = "main_651"
    /\ main[1].trace =
          <<<<"selectbox", "Peshawar">>, <<"get_prayer_times", "Peshawar">>,
            <<"get", "dhuhr", Clock("1", "2", "2", "0", "P")>>,
            <<"get_zawal_time", Clock("1", "2", "2", "0", "P")>>>>
    /\ main[1].shown[3] = <<2, "dhuhr", Clock("1", "2", "2", "0", "P")>>
    /\ main[1].zawal_shown = Clock("1", "2", "1", "5", "P")

(***************************************************************************)
(* C14                                                                     *)
(***************************************************************************)
\* Caller p is in a script run, inside get_prayer_times at the lookup.
RenderAtLookup(p) == main[p].run > 0 /\ pc[p] = "gpt_74"

\* C14: the city selection control offers exactly the five catalog keys
\* and nothing else, so in every render the lookup takes the identity
\* branch and never the default-city fallback, and the dhuhr default
\* "12:30 PM" of main is never used.
C14_SelectionIsCatalogKey ==
    \A p \in DOMAIN pc :
        /\ (main[p].run > 0 /\ pc[p] \notin {"main_450", "li_95", "li_109",
                                              "main_576"})
           => main[p].selected_city \in CityNames
        /\ RenderAtLookup(p)
           => LET data == heap[frame[FrameOf(p)].prayer_times_data]
              IN  /\ {SelectOptions[i] : i \in 1..Len(SelectOptions)}
                        = DOMAIN data
                  /\ Len(SelectOptions) = Cardinality(DOMAIN data)
                  /\ frame[FrameOf(p)].city \in DOMAIN data
        /\ (main[p].run > 0 /\ main[p].prayer_times # NoRef)
           => /\ main[p].prayer_times.city = main[p].selected_city
              /\ \E i \in 1..Len(Deref(heap, main[p].prayer_times)) :
                    Deref(heap, main[p].prayer_times)[i][1] = "dhuhr"
        /\ (main[p].run > 0 /\ main[p].dhuhr_time # <<>>)
           => main[p].dhuhr_time =
                 EntryOf(Deref(heap, main[p].prayer_times), "dhuhr")

\* A render with Islamabad selected at the lookup, its key in the catalog.
C14_Witness ==
    /\ RenderAtLookup(1)
    /\ main[1].selected_city = "Islamabad"
    /\ frame[FrameOf(1)].city = "Islamabad"
    /\ "Islamabad" \in DOMAIN heap[frame[FrameOf(1)].prayer_times_data]

(***************************************************************************)
(* C17                                                                     *)
(***************************************************************************)
\* "18 <Jumada al-Thani>, 1446 <Hijri>" as written in line 23.
HijriLiteral ==
    <<"1", "8", " ", "u062C", "u0645", "u0627", "u062F", "u06CC", " ",
      "u0627", "u0644", "u062B", "u0627", "u0646", "u06CC", ",", " ", "1",
      "4", "4", "6", " ", "u06C1", "u062C", "u0631", "u06CC">>

\* s occurs in t.
OccursIn(s, t) ==
    \E i \in 1..(Len(t) - Len(s) + 1) : SubSeq(t, i, i + Len(s) - 1) = s

\* C17: the Hijri date and the Islamic month name are constants:
\* get_accurate_hijri_date and get_current_islamic_month return the same
\* literal strings on every call, independent of the current Gregorian date
\* and of the selected city, and the month named by
\* get_current_islamic_month is the month that appears in the Hijri date.
C17_HijriConstants ==
    \A p \in DOMAIN pc :
        /\ (main[p].run > 0 /\ pc[p] \notin {"main_450", "li_95", "li_109",
                                              "main_576", "main_621",
                                              "main_625"})
           => main[p].hijri_date = HijriLiteral
        /\ main[p].hijri_date \in {<<>>, HijriLiteral}
        /\ main[p].current_islamic_month # <<>>
           => /\ main[p].current_islamic_month = SubSeq(HijriLiteral, 4, 15)
              /\ Len(main[p].current_islamic_month) = 12
              /\ OccursIn(main[p].current_islamic_month, main[p].hijri_date)

\* The second run of the session, on 19 October 2025 with Quetta selected:
\* the Hijri date shown is still the 18th.
C17_Witness ==
    /\ main[1].run = 2
    /\ main[1].selected_city = "Quetta"
    /\ main[1].gregorian_date =
          <<"1", "9", " ", "O", "c", "t", "o", "b", "e", "r", ",", " ",
            "2", "0", "2", "5">>
    /\ main[1].hijri_date = HijriLiteral
    /\ main[1].current_islamic_month = SubSeq(HijriLiteral, 4, 15)

(***************************************************************************)
(* C18                                                                     *)
(***************************************************************************)
\* C18 as stated: the image files are read from disk a single time when the
\* process starts, and later page renders reuse that cache instead of
\* reading the files again: a run after the first makes no file-system
\* call.
C18_AsStated ==
    \A p \in DOMAIN pc : main[p].run > 1 => main[p].reads = <<>>

\* C18, amended: islamic_images is a local of main(), built by
\* load_islamic_images() in every script run: nothing of it is kept from
\* one run to the next, and every run, the first and the later ones, asks
\* the file system for the folder and, when the folder is there, for each
\* of the four files before it shows anything.
C18_LoadedEveryRun ==
    \A p \in DOMAIN pc :
        /\ pc[p] = "idle" => main[p].islamic_images = <<>>
        /\ pc[p] \in {"main_450", "li_95"}
           => main[p].islamic_images = <<>> /\ main[p].reads = <<>>
        /\ ImagesLoaded(p)
           => /\ main[p].reads # <<>>
              /\ main[p].reads[1] = <<"exists", <<"islamic">>>>
              /\ main[p].answers[1] = "folder"
                 => \A k \in 1..Len(ImageFiles) :
                       \E i \in 1..Len(main[p].reads) :
                          main[p].reads[i] =
                             <<"exists", <<"islamic", "/", ImageFiles[k][2]>>>>
              /\ \A k \in 1..Len(ImageFiles) :
                    DictHas(main[p].islamic_images, ImageFiles[k][1])
                    => \E i \in 1..Len(main[p].reads) :
                          main[p].reads[i] =
                             <<"open", <<"islamic", "/", ImageFiles[k][2]>>>>

\* The second run of the session has opened 101.jpg itself and shows it.
C18_Witness ==
    /\ main[1].run = 2
    /\ pc[1] = "main_1011"
    /\ \E i \in 1..Len(main[1].reads) :
          main[1].reads[i] = <<"open", <<"islamic", "/", "101.jpg">>>>
    /\ Len(main[1].gallery) > 0
    /\ main[1].gallery[1][1] = "image"

(***************************************************************************)
(* C19                                                                     *)
(***************************************************************************)
\* The zawal time the claim names for each city.
NamedZawal ==
    [c \in CityNames |->
        CASE c = "Karachi"   -> Clock("1", "2", "2", "5", "P")
          [] c = "Lahore"    -> Clock("1", "2", "1", "0", "P")
          [] c = "Islamabad" -> Clock("1", "2", "0", "5", "P")
          [] c = "Peshawar"  -> Clock("1", "2", "1", "5", "P")
          [] c = "Quetta"    -> Clock("1", "2", "3", "5", "P")]

\* Caller p is in a script run and get_zawal_time has returned to it.
ZawalDerived(p) ==
    main[p].run > 0 /\ pc[p] \in {"main_649", "main_651", "main_1011"}

\* C19: for every city in the catalog the dhuhr entry is a well-formed time
\* string, so get_zawal_time applied to it takes the success path and never
\* returns via the fallback; the derived zawal time is 12:25 PM for
\* Karachi, 12:10 PM for Lahore, 12:05 PM for Islamabad, 12:15 PM for
\* Peshawar and 12:35 PM for Quetta, and in each city it lies strictly
\* after that city's sunrise and strictly before its dhuhr.
C19_ZawalOfEveryCity ==
    /\ \A p \in DOMAIN pc :
          /\ (main[p].run > 0 /\ pc[p] \in {"main_648", "gz_81"})
             => IsClockString(main[p].dhuhr_time)
          /\ main[p].run > 0 => pc[p] # "gz_87"
          /\ ZawalDerived(p)
             => /\ main[p].zawal_via = "gz_84"
                /\ main[p].zawal_time = NamedZawal[main[p].selected_city]
                /\ MinuteOfDay(main[p].shown[2][3])
                      < MinuteOfDay(main[p].zawal_time)
                /\ MinuteOfDay(main[p].zawal_time)
                      < MinuteOfDay(main[p].shown[3][3])
                /\ main[p].shown[2][2] = "sunrise"
                /\ main[p].shown[3][2] = "dhuhr"
    /\ \A a \in DOMAIN heap : \A c \in DOMAIN heap[a] :
          IsClockString(EntryOf(heap[a][c], "dhuhr"))

\* Islamabad: get_zawal_time("12:10 PM") returned "12:05 PM" from line 84,
\* between sunrise 06:25 AM and dhuhr 12:10 PM.
C19_Witness ==
    /\ ZawalDerived(1)
    /\ main[1].selected_city = "Islamabad"
    /\ main[1].zawal_via = "gz_84"
    /\ main[1].zawal_time = Clock("1", "2", "0", "5", "P")
    /\ main[1].shown[3][3] = Clock("1", "2", "1", "0", "P")

(***************************************************************************)
(* C20                                                                     *)
(***************************************************************************)
\* The six times of d are strictly increasing in time of day in the order
\* fajr, sunrise, dhuhr, asr, maghrib, isha, the first two before noon and
\* the other four after.
IncreasingThroughTheDay(d) ==
    /\ Len(d) = 6
    /\ \A k \in 1..6 : d[k][1] = PrayerNames[k] /\ IsClockString(d[k][2])
    /\ \A k \in 1..5 : MinuteOfDay(d[k][2]) < MinuteOfDay(d[k + 1][2])
    /\ \A k \in 1..2 : d[k][2][7] = "A" /\ MinuteOfDay(d[k][2]) < 720
    /\ \A k \in 3..6 : d[k][2][7] = "P" /\ MinuteOfDay(d[k][2]) >= 720

\* C20: in every city's prayer-time set the six times are strictly
\* increasing in time of day in key order: fajr < sunrise < dhuhr < asr <
\* maghrib < isha, with fajr and sunrise in the AM half and the other four
\* in the PM half.
C20_TimesIncreasing ==
    /\ \A a \in DOMAIN heap :
          /\ DOMAIN heap[a] = CityNames
          /\ \A c \in DOMAIN heap[a] : IncreasingThroughTheDay(heap[a][c])
    /\ \A p \in DOMAIN pc :
          /\ Returned(p, "get_prayer_times")
             => IncreasingThroughTheDay(obs[p].dict)
          /\ (main[p].run > 0 /\ main[p].prayers # <<>>)
             => IncreasingThroughTheDay(main[p].prayers)

\* get_prayer_times("Quetta") returned: asr 04:30 PM before maghrib 07:10 PM.
C20_Witness ==
    /\ Returned(1, "get_prayer_times")
    /\ obs[1].city = Given("Quetta")
    /\ obs[1].dict[4][1] = "asr" /\ obs[1].dict[5][1] = "maghrib"
    /\ MinuteOfDay(obs[1].dict[4][2]) < MinuteOfDay(obs[1].dict[5][2])
    /\ IncreasingThroughTheDay(obs[1].dict)

(***************************************************************************)
(* C21                                                                     *)
(***************************************************************************)
\* Caller p has a completed call of a chain that began with a well-formed
\* time string.
ReturnedInChain(p) ==
    /\ ReturnedZawal(p)
    /\ obs[p].start.type = "str"
    /\ IsClockString(obs[p].start.chars)

\* C21: the output of get_zawal_time is always itself a well-formed input,
\* so the function can be applied repeatedly without ever reaching the
\* fallback from a well-formed start: applying it n times to a well-formed
\* t yields t minus 5n minutes modulo 24 hours, and after exactly 288
\* applications the result is t again, with no shorter cycle.
C21_IteratedZawal ==
    \A p \in DOMAIN pc :
        /\ ReturnedZawal(p)
           => /\ obs[p].exc = ""
              /\ IsClockString(obs[p].str)
              /\ obs[p].n > 1 => obs[p].via = "gz_84"
        /\ (obs[p].fn = "get_zawal_time" /\ obs[p].n > 0
              /\ obs[p].start.type = "str"
              /\ IsClockString(obs[p].start.chars))
           => pc[p] # "gz_87"
        /\ ReturnedInChain(p)
           => /\ obs[p].via = "gz_84"
              /\ MinuteOfDay(obs[p].str) =
                    (MinuteOfDay(obs[p].start.chars) + 1440 * obs[p].n
                        - 5 * obs[p].n) % 1440
              /\ obs[p].str = obs[p].start.chars <=> obs[p].n % 288 = 0

\* The 288th application in the chain that began with "12:03 AM" has
\* returned "12:03 AM".
C21_Witness ==
    /\ ReturnedInChain(1)
    /\ obs[1].start = PyStr(Clock("1", "2", "0", "3", "A"))
    /\ obs[1].n = 288
    /\ obs[1].time = PyStr(Clock("1", "2", "0", "8", "A"))
    /\ obs[1].str = Clock("1", "2", "0", "3", "A")

(***************************************************************************)
(* C22: the text search of the third tab                                   *)
(***************************************************************************)
\* The search box has been read in the run of p.
SearchRead(p) == main[p].run > 0 /\ main[p].search_term.type = "str"

\* The search tab of the run of p is complete.
SearchDone(p) == SearchRead(p) /\ pc[p] \in {"main_956", "main_1011"}

\* The page of p shows an element of this kind in the search tab.
SearchShows(p, kind) ==
    \E k \in 1..Len(main[p].search_shown) : main[p].search_shown[k].kind = kind

\* The page of p lists this entry as a result of this kind.
SearchLists(p, kind, entry) ==
    \E k \in 1..Len(main[p].search_shown) :
        main[p].search_shown[k] = [kind |-> kind, entry |-> entry]

\* The lower-cased term is in the lower-cased Arabic text, or the term as
\* typed is in the Urdu text.
TermMatches(term, entry) ==
    \/ OccursIn(StrLower(term), StrLower(entry.arabic))
    \/ OccursIn(term, entry.urdu)

NoEntryMatches(term) ==
    /\ \A k \in 1..Len(HADITHS) : ~TermMatches(term, HADITHS[k])
    /\ \A k \in 1..Len(QURAN_VERSES) : ~TermMatches(term, QURAN_VERSES[k])

\* C22: with an empty search term the search tab shows neither results nor
\* the not-found warning; with a non-empty term a hadith or a verse is
\* listed exactly when the lower-cased term is a substring of its
\* lower-cased Arabic text or the term as typed is a substring of its Urdu
\* text; the warning is shown exactly when no hadith and no verse matches,
\* and otherwise both result headings are shown, also when one of the two
\* lists of results is empty.
C22_TextSearch ==
    \A p \in DOMAIN pc :
        LET term == main[p].search_term.chars
        IN  /\ SearchRead(p) /\ term = <<>>
               => /\ main[p].search_shown = <<>>
                  /\ pc[p] \notin {"main_928", "main_930", "main_932"}
            /\ SearchDone(p) /\ term # <<>>
               => /\ \A k \in 1..Len(HADITHS) :
                        SearchLists(p, "hadith", HADITHS[k])
                        <=> TermMatches(term, HADITHS[k])
                  /\ \A k \in 1..Len(QURAN_VERSES) :
                        SearchLists(p, "verse", QURAN_VERSES[k])
                        <=> TermMatches(term, QURAN_VERSES[k])
                  /\ \A k \in 1..Len(main[p].search_shown) :
                        LET item == main[p].search_shown[k]
                        IN  /\ item.kind = "hadith"
                               => \E j \in 1..Len(HADITHS) :
                                      item.entry = HADITHS[j]
                            /\ item.kind = "verse"
                               => \E j \in 1..Len(QURAN_VERSES) :
                                      item.entry = QURAN_VERSES[j]
                  /\ SearchShows(p, "warning") <=> NoEntryMatches(term)
                  /\ SearchShows(p, "heading_hadiths")
                     <=> ~NoEntryMatches(term)
                  /\ SearchShows(p, "heading_verses")
                     <=> ~NoEntryMatches(term)

\* The Arabic spelling of Allah is in the Arabic text of the fifth hadith
\* and in no verse: the page shows the heading of the hadiths, that hadith,
\* and the heading of the verses over an empty list.
C22_Witness ==
    /\ SearchDone(1)
    /\ main[1].search_term = PyStr(<<"u0627", "u0644", "u0644", "u0647">>)
    /\ main[1].found_verses = <<>>
    /\ main[1].search_shown =
           <<[kind |-> "heading_hadiths"],
             [kind |-> "hadith", entry |-> HADITHS[5]],
             [kind |-> "heading_verses"]>>

=============================================================================
